---- MODULE Spec2Model ----
(***************************************************************************)
(* MeshWave: LAN hub/peer chat and chunked file transfer.                  *)
(*                                                                         *)
(* The model follows the C sources: every peer process holds the           *)
(* module-private tables of transfer.c (transfers[], recv_ctxs[],          *)
(* id_counter), one socket to the hub (client.c), one receive worker       *)
(* (recv_loop), one detached sender worker per outbound transfer           *)
(* (send_thread) and a presentation thread calling transfer_pause /        *)
(* transfer_resume.  The hub (server.c) reads one frame at a time from a   *)
(* peer socket and routes it.                                              *)
(***************************************************************************)
EXTENDS Integers, Sequences, FiniteSets, TLC

(* ---------------------------------------------------------------------- *)
(* Program constants                                                       *)
(* ---------------------------------------------------------------------- *)
CHUNK_SIZE == 65536
XFER_MAX_RETRIES == 3
MAX_TRANSFERS == 16
U16 == 65536
MAX_PEERS == 32
MAX_NAME == 64
DATA_PORT == 5557
DISC_EXPIRE_MS == 10000
EVENT_QUEUE_SIZE == 256
MAX_MSG == 4096

(* ---------------------------------------------------------------------- *)
(* Bounds of the model                                                     *)
(* ---------------------------------------------------------------------- *)
MaxChunks == 2
MaxSends == 3
MaxPausable == 1
MaxPauseFrames == 1
MaxSpare == 2
MaxConns == 3
MaxFrames == 2
MaxHellos == 2
MaxTicks == 3
MaxOverflow == 2
MaxSockets == 2
MaxWireFrames == 1
MaxThreeSends == 2

Peers == {"A", "B", "C"}

\* sizes of the files a user may name: empty, one short chunk, exact
\* multiples of CHUNK_SIZE, and a multiple plus one trailing byte
FileSizes ==
    {0, 1} \cup {k * CHUNK_SIZE : k \in 1..(MaxChunks - 1)}
           \cup {(MaxChunks - 1) * CHUNK_SIZE + 1}

VARIABLES
    id_counter,   \* [peer -> int]      transfer.c id_counter of each process
    transfers,    \* [peer -> Seq(rec)] transfer.c transfers[] + recv_ctxs[] + worker locals
    connected,    \* [peer -> BOOLEAN]  client.c connected
    inq,          \* [peer -> Seq(frame)] bytes the hub wrote to the peer's socket
    outq,         \* [peer -> Seq(frame)] bytes the peer wrote, not yet read by the hub
    pres,         \* [peer -> rec]      presentation thread inside transfer_pause/resume
    table,        \* set of peers in the hub's peer table
    garbled,      \* [peer -> BOOLEAN]  hub lost frame alignment on the peer's stream
    hubHung,      \* BOOLEAN            hub worker blocked on peer_lock
    nsends,       \* number of client_send_file calls so far
    npause,       \* number of PAUSE frames put on the wire so far
    peers,        \* Seq(rec)          server.c peers[0..peer_count-1]
    fds,          \* set of int        sockets open in the hub process
    sin,          \* [fd -> Seq(frame)] frames a client wrote, not yet read by the hub
    sout,         \* [fd -> Seq(frame)] frames the hub wrote to the socket
    running,      \* BOOLEAN           server.c running
    server_thread, \* the thread of server.c server_thread: "none", "serving" (in
                  \* the loop of server_loop), or "failed" (returned before the loop)
    nacc,         \* number of connections accepted so far
    nfr,          \* number of frames clients wrote to the hub so far
    seen,         \* Seq(rec)          discovery.c seen_servers[] + seen_timestamps[]
    now,          \* util_time_ms()
    spc,          \* scan_loop: "recv" before recvfrom, "expire" before expire_servers
    heard,        \* history: per (ip, port), when its last valid beacon arrived and
                  \* whether upsert_server stored it
    event_queue,  \* client.c event_queue[]: the slots written so far, slot 0 first
    eq_head,      \* client.c eq_head
    eq_tail,      \* client.c eq_tail
    npush,        \* number of event_push calls so far; the n-th pushes event n
    polled,       \* history: the events client_poll_event returned, in order
    dropped,      \* history: the events overwritten before they were returned
    got,          \* return value of the last client_poll_event call
    sock_fd,      \* [peer -> int]     client.c sock_fd
    openfds,      \* [peer -> set of int] descriptors open in the client process
    recv_thread,  \* [peer -> string]  the thread of client.c recv_thread: "none",
                  \* "running", or "exited" (returned and not joined)
    srv,          \* [peer -> string]  the hub's end of the client's connection:
                  \* "none", "open", "bye" (open, BYE not yet handled), "closed"
    call,         \* [peer -> rec]     the client API call of the presentation thread
    wire,         \* Seq(rec)          the pieces written to the socket of one client
                  \* process, one per send() call, in the order the kernel took them
    wr            \* [thread -> rec]   the frame each writing thread is in the middle of

\* the peer table and sockets of the hub process (server.c)
hubvars == <<peers, fds, sin, sout, running, server_thread, nacc, nfr>>

\* the scanner of a client process (discovery.c)
discvars == <<seen, now, spc, heard>>

\* the event ring of a client process (client.c)
evvars == <<event_queue, eq_head, eq_tail, npush, polled, dropped, got>>

\* the session of a client process with its hub (client.c)
\* the outgoing byte stream of a client's socket (client.c, transfer.c)
wirevars == <<wire, wr>>

sessvars == <<sock_fd, openfds, recv_thread, srv, call, wirevars>>

vars == <<id_counter, transfers, connected, inq, outq, pres, table, garbled,
          hubHung, nsends, npause, hubvars, discvars, evvars, sessvars>>

(* ---------------------------------------------------------------------- *)
(* Pure helpers                                                            *)
(* ---------------------------------------------------------------------- *)
Min(a, b) == IF a < b THEN a ELSE b

\* uint32_t arithmetic on seq and done_chunks.  TLC's integers are 32-bit
\* signed, so the one value above the model's range that the code produces,
\* 0xFFFFFFFF (seq-- at seq = 0), is written -1; ++ takes it back to 0.
Inc32(x) == x + 1
Dec32(x) == x - 1

\* send_thread: t->total_chunks = (uint32_t)((file_size + CHUNK_SIZE - 1) / CHUNK_SIZE)
TotalChunks(size) == (size + CHUNK_SIZE - 1) \div CHUNK_SIZE

\* fseek(seq * CHUNK_SIZE); fread(chunk_buf, 1, CHUNK_SIZE, fp)
BytesRead(size, seq) ==
    IF seq * CHUNK_SIZE >= size THEN 0 ELSE Min(CHUNK_SIZE, size - seq * CHUNK_SIZE)

\* fhdr.payload_len = (uint16_t)(4 + bytes_read)
ChunkPayloadLen(bytes_read) == (4 + bytes_read) % U16

\* transfer_find / find_recv_ctx: index of the first entry with this id, 0 if none
FindIdx(p, id) ==
    IF \E k \in 1..Len(transfers[p]) : transfers[p][k].id = id
    THEN CHOOSE k \in 1..Len(transfers[p]) :
            /\ transfers[p][k].id = id
            /\ \A j \in 1..(k - 1) : transfers[p][j].id # id
    ELSE 0

NoData == <<>>
Holes == [i \in 0..(MaxChunks - 1) |-> NoData]
ZeroTx == [i \in 0..(MaxChunks - 1) |-> 0]

\* frames: type, header seq, header payload_len, then the payload fields
Frame(type, seq, plen, xid, data, meta) ==
    [type |-> type, seq |-> seq, plen |-> plen, xid |-> xid, data |-> data, meta |-> meta]

AckFrame(type, seq) == Frame(type, seq, 0, 0, NoData, <<>>)

\* bytes of a CHUNK payload that follow the payload_len the header announced
JunkFrame == Frame("JUNK", 0, 0, 0, NoData, <<>>)

\* alloc_transfer memset()s the entry; the remaining fields are the worker's locals
\* and the RecvCtx of the same id
BlankTransfer ==
    [id |-> 0, state |-> "IDLE", total |-> 0, done |-> 0,
     hasmap |-> FALSE, map |-> {},
     dir |-> "out", peer |-> "", size |-> 0, openable |-> TRUE, file |-> <<>>,
     fp |-> "none", disk |-> Holes, received |-> 0,
     pc |-> "none", seq |-> 0, retries |-> 0, acked |-> FALSE, br |-> 0,
     tx |-> ZeroTx, lastTx |-> 0 - 1, ackobs |-> {}, pauseOk |-> FALSE,
     resumed |-> FALSE, exhausted |-> FALSE,
     errnote |-> <<>>]        \* done, total carried by the ERROR notification or event

\* socket descriptors of the hub process: accept() hands out the lowest free one
Fds == 1..(MAX_PEERS + MaxSpare)

\* a name is its text, a number printed into it, and its length in characters
UserName(u) == <<u, 0, Len(u)>>

\* peers A and B are connected to the hub and have said HELLO
\* the descriptors socket() can return in a client process: 0, 1 and 2 are the
\* standard streams
FirstSock == 3
SockFds == FirstSock..(FirstSock + MaxSockets - 1)

\* the threads of a client process that write to its socket: two sender
\* workers, the receive worker, and the presentation thread in client_send_chat
Writers == {"send_thread_1", "send_thread_2", "recv_loop", "client_send_chat"}

\* the thread has written n whole frames and is not inside one
NotWriting == [n |-> 0, part |-> 0]

\* no client API call is in progress
NoCall == [op |-> "idle", ret |-> 0, total |-> 0, sent |-> 0 - 1]

Init ==
    /\ id_counter = [p \in Peers |-> 1]
    /\ transfers = [p \in Peers |-> <<>>]
    /\ connected = [p \in Peers |-> p \in {"A", "B"}]
    /\ inq = [p \in Peers |-> <<>>]
    /\ outq = [p \in Peers |-> <<>>]
    /\ pres = [p \in Peers |-> [op |-> "idle", k |-> 0]]
    /\ table = {"A", "B"}
    /\ garbled = [p \in Peers |-> FALSE]
    /\ hubHung = FALSE
    /\ nsends = 0
    /\ npause = 0
    /\ peers = <<[fd |-> 1, name |-> UserName("A")], [fd |-> 2, name |-> UserName("B")]>>
    /\ fds = {1, 2}
    /\ sin = [fd \in Fds |-> <<>>]
    /\ sout = [fd \in Fds |-> <<>>]
    /\ running = TRUE
    /\ server_thread = "serving"
    /\ nacc = 0
    /\ nfr = 0
    /\ seen = <<>>
    /\ now = 0
    /\ spc = "recv"
    /\ heard = {}
    /\ event_queue = <<>>
    /\ eq_head = 0
    /\ eq_tail = 0
    /\ npush = 0
    /\ polled = <<>>
    /\ dropped = {}
    /\ got = 0
    /\ sock_fd = [p \in Peers |-> IF p \in {"A", "B"} THEN FirstSock ELSE 0 - 1]
    /\ openfds = [p \in Peers |-> IF p \in {"A", "B"} THEN {FirstSock} ELSE {}]
    /\ recv_thread = [p \in Peers |-> IF p \in {"A", "B"} THEN "running" ELSE "none"]
    /\ srv = [p \in Peers |-> IF p \in {"A", "B"} THEN "open" ELSE "none"]
    /\ call = [p \in Peers |-> NoCall]
    /\ wire = <<>>
    /\ wr = [w \in Writers |-> NotWriting]

\* peers A, B and C are connected to the hub and have said HELLO
InitThree ==
    /\ id_counter = [p \in Peers |-> 1]
    /\ transfers = [p \in Peers |-> <<>>]
    /\ connected = [p \in Peers |-> TRUE]
    /\ inq = [p \in Peers |-> <<>>]
    /\ outq = [p \in Peers |-> <<>>]
    /\ pres = [p \in Peers |-> [op |-> "idle", k |-> 0]]
    /\ table = Peers
    /\ garbled = [p \in Peers |-> FALSE]
    /\ hubHung = FALSE
    /\ nsends = 0
    /\ npause = 0
    /\ peers = <<[fd |-> 1, name |-> UserName("A")], [fd |-> 2, name |-> UserName("B")],
                [fd |-> 3, name |-> UserName("C")]>>
    /\ fds = {1, 2, 3}
    /\ sin = [fd \in Fds |-> <<>>]
    /\ sout = [fd \in Fds |-> <<>>]
    /\ running = TRUE
    /\ server_thread = "serving"
    /\ nacc = 0
    /\ nfr = 0
    /\ seen = <<>>
    /\ now = 0
    /\ spc = "recv"
    /\ heard = {}
    /\ event_queue = <<>>
    /\ eq_head = 0
    /\ eq_tail = 0
    /\ npush = 0
    /\ polled = <<>>
    /\ dropped = {}
    /\ got = 0
    /\ sock_fd = [p \in Peers |-> FirstSock]
    /\ openfds = [p \in Peers |-> {FirstSock}]
    /\ recv_thread = [p \in Peers |-> "running"]
    /\ srv = [p \in Peers |-> "open"]
    /\ call = [p \in Peers |-> NoCall]
    /\ wire = <<>>
    /\ wr = [w \in Writers |-> NotWriting]

(* ---------------------------------------------------------------------- *)
(* client_send_file -> transfer_send_file                                  *)
(* ---------------------------------------------------------------------- *)
SendFile(p, to, size, ok) ==
    /\ connected[p]
    /\ Len(transfers[p]) < MAX_TRANSFERS
    /\ LET t == [BlankTransfer EXCEPT
                    !.id = id_counter[p], !.state = "IDLE", !.dir = "out",
                    !.peer = to, !.size = size, !.openable = ok,
                    !.file = <<p, id_counter[p]>>, !.pc = "start"]
       IN transfers' = [transfers EXCEPT ![p] = Append(@, t)]
    /\ id_counter' = [id_counter EXCEPT ![p] = @ + 1]
    /\ nsends' = nsends + 1
    /\ UNCHANGED <<hubvars, discvars, evvars, sessvars>>
    /\ UNCHANGED <<connected, inq, outq, pres, table, garbled, hubHung, npause>>

\* send_all() on the peer's socket: the bytes reach the hub in order, or the
\* call fails when the socket is gone
Written(p, frames) ==
    IF connected[p] THEN [outq EXCEPT ![p] = @ \o frames] ELSE outq

SetT(p, k, r) == transfers' = [transfers EXCEPT ![p][k] = r]

(* ---------------------------------------------------------------------- *)
(* send_thread                                                             *)
(* ---------------------------------------------------------------------- *)
\* lines 165-219: open the file, compute total_chunks, go ACTIVE, send META
SendStart(p, k) ==
    LET t == transfers[p][k] IN
    /\ t.pc = "start"
    /\ IF ~t.openable
       THEN /\ SetT(p, k, [t EXCEPT !.state = "ERROR", !.pc = "exit",
                                    !.errnote = <<0, t.total>>])
            /\ UNCHANGED outq
       ELSE LET total == TotalChunks(t.size)
                meta == Frame("META", 0, 14, 0, NoData,
                              <<t.peer, t.file[1], t.file[2], total, t.size>>)
            IN /\ SetT(p, k, [t EXCEPT !.total = total, !.state = "ACTIVE",
                                       !.seq = 0, !.pc = "loop"])
               /\ outq' = Written(p, <<meta>>)
    /\ UNCHANGED <<hubvars, discvars, evvars, sessvars>>
    /\ UNCHANGED <<id_counter, connected, inq, pres, table, garbled, hubHung,
                   nsends, npause>>

\* send_thread with `int retries = 0;` hoisted out of the for loop: the counter
\* is never reset between chunks
SendLoopNoReset(p, k) ==
    LET t == transfers[p][k] IN
    /\ t.pc = "loop"
    /\ ~(t.seq < t.total /\ t.state = "PAUSED")
    /\ IF ~(t.seq < t.total) \/ t.state = "ERROR"
       THEN SetT(p, k, [t EXCEPT !.pc = "fin"])
       ELSE IF t.hasmap /\ t.seq \in t.map
       THEN SetT(p, k, [t EXCEPT !.seq = Inc32(t.seq)])
       ELSE LET n == BytesRead(t.size, t.seq) IN
            IF n = 0
            THEN SetT(p, k, [t EXCEPT !.pc = "fin"])
            ELSE SetT(p, k, [t EXCEPT !.br = n, !.acked = FALSE, !.pc = "retry"])
    /\ UNCHANGED <<hubvars, discvars, evvars, sessvars>>
    /\ UNCHANGED <<id_counter, connected, inq, outq, pres, table, garbled,
                   hubHung, nsends, npause>>

\* lines 226-243: loop condition, pause wait, bitmap skip, read of the chunk
SendLoop(p, k) ==
    LET t == transfers[p][k] IN
    /\ t.pc = "loop"
    /\ ~(t.seq < t.total /\ t.state = "PAUSED")      \* usleep(200000) and re-check
    /\ IF ~(t.seq < t.total) \/ t.state = "ERROR"
       THEN SetT(p, k, [t EXCEPT !.pc = "fin"])
       ELSE IF t.hasmap /\ t.seq \in t.map
       THEN SetT(p, k, [t EXCEPT !.seq = Inc32(t.seq)])
       ELSE LET n == BytesRead(t.size, t.seq) IN
            IF n = 0
            THEN SetT(p, k, [t EXCEPT !.pc = "fin"])
            ELSE SetT(p, k, [t EXCEPT !.br = n, !.retries = 0, !.acked = FALSE,
                                      !.pc = "retry"])
    /\ UNCHANGED <<hubvars, discvars, evvars, sessvars>>
    /\ UNCHANGED <<id_counter, connected, inq, outq, pres, table, garbled,
                   hubHung, nsends, npause>>

\* the CHUNK frame of lines 252-260 as it appears on the byte stream: the header
\* announces ChunkPayloadLen(br) payload bytes, 4 + br bytes follow it
ChunkFrames(t) ==
    LET plen == ChunkPayloadLen(t.br)
        whole == plen = 4 + t.br
        f == Frame("CHUNK", t.seq, plen, t.id,
                   IF whole THEN <<t.file[1], t.file[2], t.seq>> ELSE NoData, <<>>)
    IN IF whole THEN <<f>> ELSE <<f, JunkFrame>>

\* lines 245-263: retry-loop condition and transmission of the chunk
SendChunk(p, k) ==
    LET t == transfers[p][k] IN
    /\ t.pc = "retry"
    /\ IF t.retries < XFER_MAX_RETRIES /\ ~t.acked
       THEN IF connected[p]
            THEN /\ SetT(p, k, [t EXCEPT !.pc = "wait",
                                         !.tx = [@ EXCEPT ![t.seq] = @ + 1],
                                         !.lastTx = t.seq, !.resumed = FALSE])
                 /\ outq' = Written(p, ChunkFrames(t))
            ELSE /\ SetT(p, k, [t EXCEPT !.state = "ERROR", !.pc = "post"])
                 /\ UNCHANGED outq
       ELSE /\ SetT(p, k, [t EXCEPT !.pc = "post",
                                    !.exhausted = @ \/ ~t.acked])
            /\ UNCHANGED outq
    /\ UNCHANGED <<hubvars, discvars, evvars, sessvars>>
    /\ UNCHANGED <<id_counter, connected, inq, pres, table, garbled, hubHung,
                   nsends, npause>>

\* wait_for_ack, lines 136-159, on the frame f read from the socket
AckResult(f, expected_seq) ==
    IF f.type = "ACK" /\ f.seq = expected_seq THEN 0
    ELSE IF f.type = "NACK" THEN 1
    ELSE IF f.type = "PAUSE" THEN 2
    ELSE 0 - 1

\* lines 265-282: what the sender does with the result of wait_for_ack
OnResult(t, result) ==
    IF result = 0
    THEN [t EXCEPT !.acked = TRUE, !.done = t.seq + 1, !.pc = "retry",
                   !.ackobs = @ \cup {t.seq}]
    ELSE IF result = 2
    THEN [t EXCEPT !.state = "PAUSED", !.seq = Dec32(t.seq), !.pc = "post"]
    ELSE [t EXCEPT !.retries = @ + 1, !.pc = "retry"]

\* wait_for_ack returns after reading one whole frame from the socket
WaitAck(p, k) ==
    LET t == transfers[p][k] IN
    /\ t.pc = "wait"
    /\ inq[p] # <<>>
    /\ SetT(p, k, OnResult(t, AckResult(Head(inq[p]), t.seq)))
    /\ inq' = [inq EXCEPT ![p] = Tail(@)]
    /\ UNCHANGED <<hubvars, discvars, evvars, sessvars>>
    /\ UNCHANGED <<id_counter, connected, outq, pres, table, garbled, hubHung,
                   nsends, npause>>

\* wait_for_ack, lines 133-134: select() reports nothing within XFER_TIMEOUT_S
AckTimeout(p, k) ==
    LET t == transfers[p][k] IN
    /\ t.pc = "wait"
    /\ SetT(p, k, OnResult(t, 0 - 1))
    /\ UNCHANGED <<hubvars, discvars, evvars, sessvars>>
    /\ UNCHANGED <<id_counter, connected, inq, outq, pres, table, garbled,
                   hubHung, nsends, npause>>

\* lines 284-290 and the seq++ of the for statement
SendPost(p, k) ==
    LET t == transfers[p][k] IN
    /\ t.pc = "post"
    /\ IF ~t.acked /\ t.state # "PAUSED"
       THEN SetT(p, k, [t EXCEPT !.state = "ERROR", !.pc = "fin",
                                 !.errnote = <<t.done, t.total>>])
       ELSE SetT(p, k, [t EXCEPT !.seq = Inc32(t.seq), !.pc = "loop"])
    /\ UNCHANGED <<hubvars, discvars, evvars, sessvars>>
    /\ UNCHANGED <<id_counter, connected, inq, outq, pres, table, garbled,
                   hubHung, nsends, npause>>

\* lines 293-302
SendFinish(p, k) ==
    LET t == transfers[p][k] IN
    /\ t.pc = "fin"
    /\ IF t.state = "ACTIVE" /\ t.done = t.total
       THEN SetT(p, k, [t EXCEPT !.state = "DONE", !.pc = "exit"])
       ELSE SetT(p, k, [t EXCEPT !.pc = "exit"])
    /\ UNCHANGED <<hubvars, discvars, evvars, sessvars>>
    /\ UNCHANGED <<id_counter, connected, inq, outq, pres, table, garbled,
                   hubHung, nsends, npause>>

(* ---------------------------------------------------------------------- *)
(* Receiving: transfer_recv_meta, transfer_recv_chunk, recv_loop           *)
(* ---------------------------------------------------------------------- *)
\* transfer_recv_meta, lines 334-379: the entry appended to transfers[] and
\* recv_ctxs[]; fopen_ok is the outcome of fopen(path, "wb")
RecvMetaEntry(xfer_id, meta, fopen_ok) ==
    [BlankTransfer EXCEPT
        !.id = xfer_id,
        !.state = IF fopen_ok THEN "ACTIVE" ELSE "ERROR",
        !.total = meta[4], !.done = 0, !.peer = "sender",
        !.hasmap = TRUE, !.map = {},
        !.dir = "in", !.file = <<meta[2], meta[3]>>, !.size = meta[5],
        !.fp = IF fopen_ok THEN "open" ELSE "null", !.received = 0]

\* transfer_recv_chunk, lines 385-392: the early returns with -1
ChunkRejectedUnlessPaused(p, xfer_id) ==
    LET k == FindIdx(p, xfer_id) IN
    \/ k = 0
    \/ transfers[p][k].dir # "in"
    \/ transfers[p][k].fp # "open"

ChunkRejected(p, xfer_id) ==
    LET k == FindIdx(p, xfer_id) IN
    \/ k = 0
    \/ transfers[p][k].state \in {"PAUSED", "ERROR"}
    \/ transfers[p][k].dir # "in"          \* find_recv_ctx finds no RecvCtx
    \/ transfers[p][k].fp # "open"

\* transfer_recv_chunk, lines 394-421, on an accepted chunk of data_len bytes
ChunkApplied(t, chunk_seq, data, data_len) ==
    LET done == Inc32(t.done)
        t1 == [t EXCEPT
                 !.disk = IF data_len > 0 /\ chunk_seq \in DOMAIN t.disk
                          THEN [@ EXCEPT ![chunk_seq] = data] ELSE @,
                 !.map = IF t.hasmap THEN @ \cup {chunk_seq} ELSE @,
                 !.done = done,
                 !.received = @ + data_len]
    IN IF done >= t.total
       THEN [t1 EXCEPT !.state = "DONE", !.fp = "null"]
       ELSE t1

\* recv_loop, lines 149-169: the event pushed after a chunk for the transfer
\* transfer_find returns; one with xfer_state ERROR is an EVT_FILE_ERROR
FileEvent(p, xfer_id) ==
    LET k == FindIdx(p, xfer_id) IN
    IF k # 0 /\ transfers[p][k].state = "ERROR"
    THEN [transfers EXCEPT ![p][k].errnote = <<transfers[p][k].done, transfers[p][k].total>>]
    ELSE transfers

\* recv_loop, lines 68-171: one iteration on the frame at the head of the socket
RecvLoop(p, fopen_ok) ==
    /\ connected[p]
    /\ inq[p] # <<>>
    /\ LET f == Head(inq[p]) IN
       /\ inq' = [inq EXCEPT ![p] = Tail(@)]
       /\ IF f.plen = 0
          THEN UNCHANGED <<transfers, id_counter, outq>>         \* continue
          ELSE IF f.type = "META"
          THEN /\ id_counter' = [id_counter EXCEPT ![p] = @ + 1]
               /\ transfers' =
                    IF Len(transfers[p]) < MAX_TRANSFERS
                    THEN [transfers EXCEPT ![p] =
                            Append(@, RecvMetaEntry(id_counter[p], f.meta, fopen_ok))]
                    ELSE transfers
               /\ outq' = Written(p, <<AckFrame("ACK", 0)>>)
          ELSE IF f.type = "CHUNK" /\ f.plen >= 4
          THEN IF ChunkRejected(p, f.xid)
               THEN /\ outq' = Written(p, <<AckFrame("NACK", f.seq)>>)
                    /\ transfers' = FileEvent(p, f.xid)
                    /\ UNCHANGED id_counter
               ELSE LET k == FindIdx(p, f.xid) IN
                    /\ SetT(p, k, ChunkApplied(transfers[p][k], f.seq, f.data,
                                               f.plen - 4))
                    /\ outq' = Written(p, <<AckFrame("ACK", f.seq)>>)
                    /\ UNCHANGED id_counter
          ELSE UNCHANGED <<transfers, id_counter, outq>>
    /\ fopen_ok \/ (Head(inq[p]).type = "META" /\ Head(inq[p]).plen > 0)
    /\ UNCHANGED <<hubvars, discvars, evvars, sessvars>>
    /\ UNCHANGED <<connected, pres, table, garbled, hubHung, nsends, npause>>

(* ---------------------------------------------------------------------- *)
(* transfer_pause / transfer_resume (called by the presentation thread)    *)
(* ---------------------------------------------------------------------- *)
\* transfer_pause testing only that the transfer exists
PauseTestAny(p, k) ==
    /\ pres[p].op = "idle"
    /\ k \in 1..Len(transfers[p])
    /\ pres' = [pres EXCEPT ![p] = [op |-> "pause", k |-> k]]
    /\ UNCHANGED <<hubvars, discvars, evvars, sessvars>>
    /\ UNCHANGED <<id_counter, transfers, connected, inq, outq, table, garbled,
                   hubHung, nsends, npause>>

\* line 431: transfer_find and the test of t->state
PauseTest(p, k) ==
    /\ pres[p].op = "idle"
    /\ k \in 1..Len(transfers[p])
    /\ transfers[p][k].state = "ACTIVE"
    /\ pres' = [pres EXCEPT ![p] = [op |-> "pause", k |-> k]]
    /\ UNCHANGED <<hubvars, discvars, evvars, sessvars>>
    /\ UNCHANGED <<id_counter, transfers, connected, inq, outq, table, garbled,
                   hubHung, nsends, npause>>

\* lines 433-436: the write of t->state and the return of 0
PauseSet(p) ==
    /\ pres[p].op = "pause"
    /\ SetT(p, pres[p].k, [transfers[p][pres[p].k] EXCEPT
            !.state = "PAUSED", !.pauseOk = TRUE, !.resumed = FALSE])
    /\ pres' = [pres EXCEPT ![p] = [op |-> "idle", k |-> 0]]
    /\ UNCHANGED <<hubvars, discvars, evvars, sessvars>>
    /\ UNCHANGED <<id_counter, connected, inq, outq, table, garbled, hubHung,
                   nsends, npause>>

\* line 442
ResumeTest(p, k) ==
    /\ pres[p].op = "idle"
    /\ k \in 1..Len(transfers[p])
    /\ transfers[p][k].state = "PAUSED"
    /\ pres' = [pres EXCEPT ![p] = [op |-> "resume", k |-> k]]
    /\ UNCHANGED <<hubvars, discvars, evvars, sessvars>>
    /\ UNCHANGED <<id_counter, transfers, connected, inq, outq, table, garbled,
                   hubHung, nsends, npause>>

\* lines 444-447
ResumeSet(p) ==
    /\ pres[p].op = "resume"
    /\ SetT(p, pres[p].k, [transfers[p][pres[p].k] EXCEPT
            !.state = "ACTIVE", !.resumed = TRUE, !.pauseOk = FALSE])
    /\ pres' = [pres EXCEPT ![p] = [op |-> "idle", k |-> 0]]
    /\ UNCHANGED <<hubvars, discvars, evvars, sessvars>>
    /\ UNCHANGED <<id_counter, connected, inq, outq, table, garbled, hubHung,
                   nsends, npause>>

\* line 431, the other branch: transfer_find returns NULL or the state is not
\* ACTIVE, and the call returns -1
PauseRefused(p, id) ==
    /\ pres[p].op = "idle"
    /\ LET k == FindIdx(p, id) IN
       /\ IF k = 0 THEN TRUE ELSE transfers[p][k].state # "ACTIVE"
       /\ pres' = [pres EXCEPT ![p] = [op |-> "pause_refused", k |-> k]]
    /\ UNCHANGED <<hubvars, discvars, evvars, sessvars>>
    /\ UNCHANGED <<id_counter, transfers, connected, inq, outq, table, garbled,
                   hubHung, nsends, npause>>

\* line 442, the other branch
ResumeRefused(p, id) ==
    /\ pres[p].op = "idle"
    /\ LET k == FindIdx(p, id) IN
       /\ IF k = 0 THEN TRUE ELSE transfers[p][k].state # "PAUSED"
       /\ pres' = [pres EXCEPT ![p] = [op |-> "resume_refused", k |-> k]]
    /\ UNCHANGED <<hubvars, discvars, evvars, sessvars>>
    /\ UNCHANGED <<id_counter, transfers, connected, inq, outq, table, garbled,
                   hubHung, nsends, npause>>

\* client_pause_transfer / client_resume_transfer hand the -1 back to the caller
ApiReturn(p) ==
    /\ pres[p].op \in {"pause_refused", "resume_refused"}
    /\ pres' = [pres EXCEPT ![p] = [op |-> "idle", k |-> 0]]
    /\ UNCHANGED <<hubvars, discvars, evvars, sessvars>>
    /\ UNCHANGED <<id_counter, transfers, connected, inq, outq, table, garbled,
                   hubHung, nsends, npause>>

(* ---------------------------------------------------------------------- *)
(* Hub: server_loop reads one frame from a peer socket, handle_packet      *)
(* routes it                                                               *)
(* ---------------------------------------------------------------------- *)
\* broadcast_to_all(buf, len, exclude_fd)
Broadcast(f, from) ==
    [q \in Peers |-> IF q \in table /\ q # from THEN Append(inq[q], f) ELSE inq[q]]

HubRoute(p, aligned) ==
    /\ ~hubHung
    /\ p \in table
    /\ outq[p] # <<>>
    /\ LET f == Head(outq[p]) IN
       /\ outq' = [outq EXCEPT ![p] = Tail(@)]
       /\ IF garbled[p]
          THEN /\ aligned
               /\ UNCHANGED <<inq, garbled, hubHung>>   \* parsed as unknown types
          ELSE IF f.type = "JUNK"
          THEN /\ garbled' = [garbled EXCEPT ![p] = ~aligned]
               /\ UNCHANGED <<inq, hubHung>>
          ELSE /\ aligned
               /\ UNCHANGED garbled
               /\ IF f.type = "META"
                  THEN IF f.meta[1] \in table
                       THEN /\ inq' = [inq EXCEPT ![f.meta[1]] = Append(@, f)]
                            /\ UNCHANGED hubHung
                       ELSE \* broadcast_to_all relocks peer_lock, which this
                            \* thread holds: the worker blocks for ever, or the
                            \* lock is granted again and the frame goes to all
                            \/ /\ hubHung' = TRUE
                               /\ UNCHANGED inq
                            \/ /\ inq' = Broadcast(f, p)
                               /\ UNCHANGED hubHung
                  ELSE /\ inq' = Broadcast(f, p)
                       /\ UNCHANGED hubHung
    /\ UNCHANGED <<hubvars, discvars, evvars, sessvars>>
    /\ UNCHANGED <<id_counter, transfers, connected, pres, table, nsends, npause>>

\* a peer conveys PAUSE over the wire: the frame arrives on its hub socket
PeerPause(q, x) ==
    /\ q \in table
    /\ connected[q]
    /\ npause < MaxPauseFrames
    /\ npause' = npause + 1
    /\ outq' = [outq EXCEPT ![q] = Append(@, AckFrame("PAUSE", x))]
    /\ UNCHANGED <<hubvars, discvars, evvars, sessvars>>
    /\ UNCHANGED <<id_counter, transfers, connected, inq, pres, table, garbled,
                   hubHung, nsends>>

(* ---------------------------------------------------------------------- *)
(* server.c: the hub's peer table, one entry per accepted socket           *)
(* ---------------------------------------------------------------------- *)
TableFds == {peers[i].fd : i \in 1..Len(peers)}

\* index of the entry of socket fd, 0 when there is none
PeerIdx(fd) ==
    IF fd \in TableFds THEN CHOOSE i \in 1..Len(peers) : peers[i].fd = fd ELSE 0

Digits(n) == IF n < 10 THEN 1 ELSE 2

\* "peer_%d"
DefaultName(fd) == <<"peer_", fd, 5 + Digits(fd)>>

\* "%.*s" with the precision handle_packet computes from payload_len
HelloName(n, plen) == <<n[1], n[2], Min(n[3], IF plen < MAX_NAME THEN plen ELSE MAX_NAME - 1)>>

\* variant of peer_add without the capacity test
peer_add_always(fd) == Append(peers, [fd |-> fd, name |-> DefaultName(fd)])

peer_add(fd) ==
    IF Len(peers) < MAX_PEERS
    THEN Append(peers, [fd |-> fd, name |-> DefaultName(fd)])
    ELSE peers

\* variant of RemoveAt that drops the count without moving the last entry
RemoveLast(i) == SubSeq(peers, 1, Len(peers) - 1)

\* the entry of fd is overwritten by the last entry and the count drops
RemoveAt(i) ==
    [k \in 1..(Len(peers) - 1) |-> IF k = i THEN peers[Len(peers)] ELSE peers[k]]

peer_remove(fd) ==
    IF fd \in TableFds
    THEN /\ peers' = RemoveAt(PeerIdx(fd))
         /\ fds' = fds \ {fd}
         /\ sin' = [sin EXCEPT ![fd] = <<>>]
    ELSE UNCHANGED <<peers, fds, sin>>

\* first entry whose name equals the given one, 0 when there is none
peer_find_by_name(name) ==
    IF \E i \in 1..Len(peers) : peers[i].name = name
    THEN CHOOSE i \in 1..Len(peers) :
            /\ peers[i].name = name
            /\ \A k \in 1..(i - 1) : peers[k].name # name
    ELSE 0

\* variant of broadcast_to_all that does not skip the excluded socket
broadcast_to_everyone(f, exclude_fd) ==
    [fd \in Fds |-> IF fd \in TableFds THEN Append(sout[fd], f) ELSE sout[fd]]

broadcast_to_all(f, exclude_fd) ==
    [fd \in Fds |-> IF fd \in TableFds /\ fd # exclude_fd
                    THEN Append(sout[fd], f) ELSE sout[fd]]

FileTypes == {"CHUNK", "ACK", "NACK", "PAUSE", "RESUME"}

\* a frame routed by name: to the first entry of that name, else to all
\* others; the second path takes peer_lock while this thread holds it, so the
\* worker blocks for ever or the lock is granted again
RouteByName(fd, to, f) ==
    LET t == peer_find_by_name(to) IN
    IF t # 0
    THEN /\ sout' = [sout EXCEPT ![peers[t].fd] = Append(@, f)]
         /\ UNCHANGED hubHung
    ELSE \/ /\ hubHung' = TRUE
            /\ UNCHANGED sout
         \/ /\ sout' = broadcast_to_all(f, fd)
            /\ UNCHANGED hubHung

handle_packet(fd, f) ==
    IF f.type = "HELLO"
    THEN /\ peers' = [peers EXCEPT ![PeerIdx(fd)].name = HelloName(f.meta[1], f.plen)]
         /\ sin' = [sin EXCEPT ![fd] = Tail(@)]
         /\ UNCHANGED <<fds, sout, hubHung>>
    ELSE IF f.type = "CHAT"
    THEN /\ sin' = [sin EXCEPT ![fd] = Tail(@)]
         /\ UNCHANGED <<peers, fds>>
         /\ IF f.plen <= f.meta[1][3]      \* no NUL in the payload
            THEN UNCHANGED <<sout, hubHung>>
            ELSE LET sender == peers[PeerIdx(fd)].name
                     rf == Frame("CHAT", f.seq, (sender[3] + 1 + f.plen - (f.meta[1][3] + 1)) % U16,
                                 0, NoData, <<sender, f.meta[2]>>)
                 IN RouteByName(fd, f.meta[1], rf)
    ELSE IF f.type = "META"
    THEN /\ sin' = [sin EXCEPT ![fd] = Tail(@)]
         /\ UNCHANGED <<peers, fds>>
         /\ RouteByName(fd, f.meta[1], f)
    ELSE IF f.type \in FileTypes
    THEN /\ sin' = [sin EXCEPT ![fd] = Tail(@)]
         /\ sout' = broadcast_to_all(f, fd)
         /\ UNCHANGED <<peers, fds, hubHung>>
    ELSE IF f.type = "BYE"
    THEN /\ peer_remove(fd)
         /\ UNCHANGED <<sout, hubHung>>
    ELSE /\ sin' = [sin EXCEPT ![fd] = Tail(@)]
         /\ UNCHANGED <<peers, fds, sout, hubHung>>

XferVars == <<id_counter, transfers, connected, inq, outq, pres, table, garbled,
              nsends, npause, evvars, sessvars>>

\* server_loop: a connection is pending on the listening socket
HubAccept ==
    /\ running
    /\ server_thread = "serving"
    /\ ~hubHung
    /\ Fds \ fds # {}
    /\ LET cfd == CHOOSE fd \in Fds \ fds : \A g \in Fds \ fds : fd <= g IN
       /\ fds' = fds \cup {cfd}
       /\ peers' = peer_add(cfd)
       /\ sin' = [sin EXCEPT ![cfd] = <<>>]
       /\ sout' = [sout EXCEPT ![cfd] = <<>>]
    /\ nacc' = nacc + 1
    /\ UNCHANGED <<running, server_thread, nfr, hubHung, discvars, XferVars>>

\* server_loop: a frame is readable on the socket of table entry i
HubRead(i) ==
    /\ running
    /\ server_thread = "serving"
    /\ ~hubHung
    /\ i \in 1..Len(peers)
    /\ sin[peers[i].fd] # <<>>
    /\ Head(sin[peers[i].fd]).type # "EOF"
    /\ handle_packet(peers[i].fd, Head(sin[peers[i].fd]))
    /\ UNCHANGED <<running, server_thread, nacc, nfr, discvars, XferVars>>

\* server_loop: recv on the socket of table entry i returns zero or fails,
\* the peer having closed or lost its end
HubReadFail(i) ==
    /\ running
    /\ server_thread = "serving"
    /\ ~hubHung
    /\ i \in 1..Len(peers)
    /\ sin[peers[i].fd] # <<>>
    /\ Head(sin[peers[i].fd]).type = "EOF"
    /\ peer_remove(peers[i].fd)
    /\ UNCHANGED <<sout, running, server_thread, nacc, nfr, hubHung, discvars, XferVars>>

\* server_stop: the flag is cleared and the thread joined; a worker that was
\* in its loop leaves it and closes every peer socket
HubStop ==
    /\ running
    /\ ~hubHung
    /\ running' = FALSE
    /\ server_thread' = "none"
    /\ IF server_thread = "serving"
       THEN /\ fds' = fds \ TableFds
            /\ sin' = [fd \in Fds |-> IF fd \in TableFds THEN <<>> ELSE sin[fd]]
            /\ peers' = <<>>
       ELSE UNCHANGED <<fds, sin, peers>>
    /\ UNCHANGED <<sout, nacc, nfr, hubHung, discvars, XferVars>>

\* server_start, and server_loop up to its loop: bind and listen succeed
HubStart ==
    /\ ~running
    /\ running' = TRUE
    /\ server_thread' = "serving"
    /\ UNCHANGED <<peers, fds, sin, sout, nacc, nfr, hubHung, discvars, XferVars>>

\* server_start, and server_loop returning at line 204, 218 or 224: socket,
\* bind or listen fails
HubStartFails ==
    /\ ~running
    /\ running' = TRUE
    /\ server_thread' = "failed"
    /\ UNCHANGED <<peers, fds, sin, sout, nacc, nfr, hubHung, discvars, XferVars>>

\* the stream of a socket ends with the peer's close
EofMark == Frame("EOF", 0, 0, 0, NoData, <<>>)

Open(fd) ==
    /\ fd \in fds
    /\ IF sin[fd] = <<>> THEN TRUE ELSE sin[fd][Len(sin[fd])] # EofMark

\* the client end of an open connection writes a frame
ClientSend(fd, f) ==
    /\ Open(fd)
    /\ sin' = [sin EXCEPT ![fd] = Append(@, f)]
    /\ nfr' = nfr + 1
    /\ UNCHANGED <<peers, fds, sout, running, server_thread, nacc, hubHung, discvars, XferVars>>

\* the client end of an open connection is closed or breaks
ClientClose(fd) == ClientSend(fd, EofMark)

(* ---------------------------------------------------------------------- *)
(* discovery.c: the table of servers seen by scan_loop                     *)
(* ---------------------------------------------------------------------- *)
\* the name field keeps at most MAX_NAME - 1 characters
ScanName(n) == <<n[1], n[2], Min(n[3], MAX_NAME - 1)>>

\* variant of FindSeen that never finds an entry
FindSeenNever(ip, port) == 0

\* index of the entry with that ip and port, 0 when there is none
FindSeen(ip, port) ==
    IF \E i \in 1..Len(seen) : seen[i].ip = ip /\ seen[i].port = port
    THEN CHOOSE i \in 1..Len(seen) :
            /\ seen[i].ip = ip /\ seen[i].port = port
            /\ \A k \in 1..(i - 1) : ~(seen[k].ip = ip /\ seen[k].port = port)
    ELSE 0

upsert_server(name, ip, port) ==
    LET i == FindSeen(ip, port) IN
    IF i # 0
    THEN [seen EXCEPT ![i].name = ScanName(name), ![i].ts = now]
    ELSE IF Len(seen) < MAX_PEERS
    THEN Append(seen, [name |-> ScanName(name), ip |-> ip, port |-> port, ts |-> now])
    ELSE seen

\* variant of ExpireFrom that moves on after a removal, leaving the entry
\* moved into the vacated slot unexamined
RECURSIVE ExpireFromSkip(_, _)
ExpireFromSkip(t, i) ==
    IF i > Len(t) THEN t
    ELSE IF now - t[i].ts > DISC_EXPIRE_MS
    THEN ExpireFromSkip([k \in 1..(Len(t) - 1) |-> IF k = i THEN t[Len(t)] ELSE t[k]], i + 1)
    ELSE ExpireFromSkip(t, i + 1)

\* the loop of expire_servers from index i on: a stale entry is overwritten
\* by the last one and the same index is examined again
RECURSIVE ExpireFrom(_, _)
ExpireFrom(t, i) ==
    IF i > Len(t) THEN t
    ELSE IF now - t[i].ts > DISC_EXPIRE_MS
    THEN ExpireFrom([k \in 1..(Len(t) - 1) |-> IF k = i THEN t[Len(t)] ELSE t[k]], i)
    ELSE ExpireFrom(t, i + 1)

expire_servers == ExpireFrom(seen, 1)

\* the beacon for (ip, port) that arrives now replaces what was noted of the
\* previous one
Heard(ip, port, stored) ==
    {h \in heard : ~(h.ip = ip /\ h.port = port)}
        \cup {[ip |-> ip, port |-> port, t |-> now, stored |-> stored]}

\* scan_loop: recvfrom returns a beacon with these fields
ScanRecv(name, ip, port) ==
    /\ spc = "recv"
    /\ IF name[3] > 0 /\ ip[1] # "" /\ port > 0
       THEN /\ seen' = upsert_server(name, ip, port % U16)
            /\ heard' = Heard(ip, port % U16,
                              \E i \in 1..Len(seen') :
                                 /\ seen'[i].ip = ip /\ seen'[i].port = port % U16
                                 /\ seen'[i].ts = now)
       ELSE UNCHANGED <<seen, heard>>
    /\ spc' = "expire"
    /\ UNCHANGED <<now, hubvars, hubHung, XferVars>>

\* scan_loop: recvfrom times out
ScanTimeout ==
    /\ spc = "recv"
    /\ spc' = "expire"
    /\ UNCHANGED <<seen, now, heard, hubvars, hubHung, XferVars>>

\* scan_loop: the eviction pass that ends every iteration
ScanExpire ==
    /\ spc = "expire"
    /\ seen' = expire_servers
    /\ spc' = "recv"
    /\ UNCHANGED <<now, heard, hubvars, hubHung, XferVars>>

\* the clock advances by half the expiry period
Tick ==
    /\ now' = now + DISC_EXPIRE_MS \div 2
    /\ UNCHANGED <<seen, spc, heard, hubvars, hubHung, XferVars>>

(* ---------------------------------------------------------------------- *)
(* client.c: the event ring between the receive worker and the poller      *)
(* ---------------------------------------------------------------------- *)
\* event_queue[i]; a slot never written still holds its static zero
Slot(i) == IF i < Len(event_queue) THEN event_queue[i + 1] ELSE 0

\* event_queue[i] = ev
SetSlot(i, ev) ==
    IF i < Len(event_queue)
    THEN [event_queue EXCEPT ![i + 1] = ev]
    ELSE Append(event_queue, ev)

\* variant of PushTail that leaves eq_tail alone
PushTailKeep(head, tail) == tail

\* event_push: eq_tail after eq_head has advanced to head
PushTail(head, tail) ==
    IF head = tail THEN (tail + 1) % EVENT_QUEUE_SIZE ELSE tail

\* variant of PollTail that does not consume the slot
PollTailStay(tail) == tail

\* client_poll_event: eq_tail after the slot at tail was copied out
PollTail(tail) == (tail + 1) % EVENT_QUEUE_SIZE

\* variant of PollSlot that takes the newest event
PollNewest(head, tail) == (head + EVENT_QUEUE_SIZE - 1) % EVENT_QUEUE_SIZE

\* client_poll_event: the slot copied out
PollSlot(head, tail) == tail

\* the receive worker pushes the next event
event_push ==
    LET head == (eq_head + 1) % EVENT_QUEUE_SIZE
        tail == PushTail(head, eq_tail)
    IN /\ event_queue' = SetSlot(eq_head, npush + 1)
       /\ eq_head' = head
       /\ eq_tail' = tail
       /\ npush' = npush + 1
       /\ dropped' = IF tail # eq_tail THEN dropped \cup {Slot(eq_tail)} ELSE dropped
       /\ UNCHANGED <<polled, got>>
       /\ UNCHANGED <<id_counter, transfers, connected, inq, outq, pres, table, garbled,
                      hubHung, nsends, npause, hubvars, discvars, sessvars>>

\* the poller asks for the next event
client_poll_event ==
    /\ IF eq_tail # eq_head
       THEN /\ polled' = Append(polled, Slot(PollSlot(eq_head, eq_tail)))
            /\ eq_tail' = PollTail(eq_tail)
            /\ got' = 1
       ELSE /\ got' = 0
            /\ UNCHANGED <<polled, eq_tail>>
    /\ UNCHANGED <<event_queue, eq_head, npush, dropped>>
    /\ UNCHANGED <<id_counter, transfers, connected, inq, outq, pres, table, garbled,
                   hubHung, nsends, npause, hubvars, discvars, sessvars>>

(* ---------------------------------------------------------------------- *)
(* Client session: client_connect, recv_loop, client_disconnect,           *)
(* client_send_chat (client.c)                                             *)
(* ---------------------------------------------------------------------- *)
\* what a session step leaves alone
SessRest == <<id_counter, transfers, inq, outq, pres, table, garbled, hubHung,
              nsends, npause, hubvars, discvars, evvars, wirevars>>

\* the call has run to its return statement: its return value, and for a chat
\* the payload length computed and the payload_len of the frame written
\* (-1: no frame)
Returned(op, ret, total, sent) == [op |-> op, ret |-> ret, total |-> total, sent |-> sent]

\* socket(): the lowest descriptor not open in the process
LowestFree(p) ==
    CHOOSE fd \in SockFds \ openfds[p] : \A g \in SockFds \ openfds[p] : fd <= g

\* client_connect, lines 176-218; ok: connect and the HELLO write succeed
client_connect(p, ok) ==
    /\ call[p].op = "idle"
    /\ SockFds \ openfds[p] # {}
    /\ IF connected[p]
       THEN /\ call' = [call EXCEPT ![p] = Returned("connect", 0 - 1, 0, 0 - 1)]
            /\ UNCHANGED <<connected, sock_fd, openfds, recv_thread, srv>>
       ELSE IF ~ok
       THEN /\ sock_fd' = [sock_fd EXCEPT ![p] = 0 - 1]
            /\ call' = [call EXCEPT ![p] = Returned("connect", 0 - 1, 0, 0 - 1)]
            /\ UNCHANGED <<connected, openfds, recv_thread, srv>>
       ELSE /\ sock_fd' = [sock_fd EXCEPT ![p] = LowestFree(p)]
            /\ openfds' = [openfds EXCEPT ![p] = @ \cup {LowestFree(p)}]
            /\ connected' = [connected EXCEPT ![p] = TRUE]
            /\ recv_thread' = [recv_thread EXCEPT ![p] = "running"]
            /\ srv' = [srv EXCEPT ![p] = "open"]
            /\ call' = [call EXCEPT ![p] = Returned("connect", 0, 0, 0 - 1)]
    /\ UNCHANGED SessRest

\* the hub closes its end: peer_remove after a BYE or a failed read, or the
\* worker of a stopped server closing every peer socket
HubCloses(p) ==
    /\ srv[p] \in {"open", "bye"}
    /\ srv' = [srv EXCEPT ![p] = "closed"]
    /\ UNCHANGED <<connected, sock_fd, openfds, recv_thread, call>>
    /\ UNCHANGED SessRest

\* recv_loop, lines 70-75: the blocking recv returns 0 once the hub has closed
recv_loop_eof(p) ==
    /\ recv_thread[p] = "running"
    /\ srv[p] = "closed"
    /\ connected' = [connected EXCEPT ![p] = FALSE]
    /\ recv_thread' = [recv_thread EXCEPT ![p] = "exited"]
    /\ UNCHANGED <<sock_fd, openfds, srv, call>>
    /\ UNCHANGED SessRest

\* recv_loop, line 68: a frame from the hub ends the recv, and the loop
\* condition is evaluated again
recv_loop_frame(p) ==
    /\ recv_thread[p] = "running"
    /\ srv[p] \in {"open", "bye"}
    /\ ~connected[p]
    /\ recv_thread' = [recv_thread EXCEPT ![p] = "exited"]
    /\ UNCHANGED <<connected, sock_fd, openfds, srv, call>>
    /\ UNCHANGED SessRest

\* client_disconnect, lines 222-230: the early return, or BYE written and the
\* flag cleared before pthread_join
DisconnectCall(p) ==
    /\ call[p].op = "idle"
    /\ IF ~connected[p]
       THEN /\ call' = [call EXCEPT ![p] = Returned("disconnect", 0, 0, 0 - 1)]
            /\ UNCHANGED <<connected, srv>>
       ELSE /\ connected' = [connected EXCEPT ![p] = FALSE]
            /\ srv' = [srv EXCEPT ![p] = IF @ = "open" THEN "bye" ELSE @]
            /\ call' = [call EXCEPT ![p] = [NoCall EXCEPT !.op = "join"]]
    /\ UNCHANGED <<sock_fd, openfds, recv_thread>>
    /\ UNCHANGED SessRest

\* client_disconnect, lines 231-234: pthread_join returns, the socket is closed
DisconnectJoin(p) ==
    /\ call[p].op = "join"
    /\ recv_thread[p] = "exited"
    /\ recv_thread' = [recv_thread EXCEPT ![p] = "none"]
    /\ openfds' = [openfds EXCEPT ![p] = @ \ {sock_fd[p]}]
    /\ sock_fd' = [sock_fd EXCEPT ![p] = 0 - 1]
    /\ call' = [call EXCEPT ![p] = Returned("disconnect", 0, 0, 0 - 1)]
    /\ UNCHANGED <<connected, srv>>
    /\ UNCHANGED SessRest

\* client_send_chat, line 245
ChatTooLongFrom(total) == total >= MAX_MSG
ChatTooLong(total) == total > MAX_MSG

\* client_send_chat, lines 237-261; ok: the two writes succeed on a socket
\* whose other end is closed already
client_send_chat(p, to_len, txt_len, ok) ==
    /\ call[p].op = "idle"
    /\ LET total == to_len + 1 + txt_len IN
       call' = [call EXCEPT ![p] =
                  IF ~connected[p] \/ ChatTooLong(total)
                  THEN Returned("chat", 0 - 1, total, 0 - 1)
                  ELSE IF srv[p] # "closed" \/ ok
                  THEN Returned("chat", 0, total, total % U16)
                  ELSE Returned("chat", 0 - 1, total, 0 - 1)]
    /\ UNCHANGED <<connected, sock_fd, openfds, recv_thread, srv>>
    /\ UNCHANGED SessRest

\* the call returns to the presentation thread
CallReturn(p) ==
    /\ call[p].op \in {"connect", "disconnect", "chat"}
    /\ call' = [call EXCEPT ![p] = NoCall]
    /\ UNCHANGED <<connected, sock_fd, openfds, recv_thread, srv>>
    /\ UNCHANGED SessRest

(* ---------------------------------------------------------------------- *)
(* Writing to the client's socket: send_all calls of send_thread,           *)
(* recv_loop and client_send_chat on the one sock_fd                        *)
(* ---------------------------------------------------------------------- *)
\* the send_all calls that make up one frame: header, xfer_id and data of a
\* CHUNK (transfer.c:258-260), the header of an ACK or NACK (client.c:147),
\* header and payload of a CHAT (client.c:256-257)
SendCalls(w) ==
    IF w \in {"send_thread_1", "send_thread_2"} THEN 3
    ELSE IF w = "recv_loop" THEN 1
    ELSE 2

\* thread w makes the next send_all call of its frame; no lock is taken, so the
\* calls of the threads reach the socket in any order
SockSend(w) ==
    LET part == wr[w].part + 1 IN
    /\ wr[w].n < MaxWireFrames
    /\ wire' = Append(wire, [by |-> w, n |-> wr[w].n + 1, part |-> part])
    /\ wr' = [wr EXCEPT ![w] = IF part = SendCalls(w)
                                THEN [n |-> wr[w].n + 1, part |-> 0]
                                ELSE [n |-> wr[w].n, part |-> part]]
    /\ UNCHANGED <<connected, sock_fd, openfds, recv_thread, srv, call>>
    /\ UNCHANGED <<id_counter, transfers, inq, outq, pres, table, garbled, hubHung,
                   nsends, npause, hubvars, discvars, evvars>>

(* ---------------------------------------------------------------------- *)
(* Specifications                                                          *)
(* ---------------------------------------------------------------------- *)
Idx(p) == 1..Len(transfers[p])

\* no sender worker is running anywhere
SendersIdle ==
    \A p \in Peers : \A k \in Idx(p) : transfers[p][k].pc \in {"none", "exit"}

\* no frame is on its way to any peer: nothing a waiting sender could still read
Quiet ==
    \A q \in Peers :
        /\ inq[q] = <<>>
        /\ (hubHung \/ q \notin table \/ outq[q] = <<>>)

\* the workers of every peer and of the hub
Workers ==
    \/ \E p \in Peers : \E k \in Idx(p) : SendStart(p, k)
    \/ \E p \in Peers : \E k \in Idx(p) : SendLoop(p, k)
    \/ \E p \in Peers : \E k \in Idx(p) : SendChunk(p, k)
    \/ \E p \in Peers : \E k \in Idx(p) : WaitAck(p, k)
    \/ \E p \in Peers : \E k \in Idx(p) : SendPost(p, k)
    \/ \E p \in Peers : \E k \in Idx(p) : SendFinish(p, k)
    \/ \E p \in Peers, aligned \in BOOLEAN : HubRoute(p, aligned)

\* the user of peer A sends one file to B or to a name that is not on the hub
UserSendsOne ==
    /\ nsends < MaxPausable
    /\ SendersIdle
    /\ \E to \in {"B", "C"}, size \in FileSizes : SendFile("A", to, size, TRUE)

\* the first transfer on the hub: the user of peer A sends one file
UserSendsFirst ==
    /\ \A p \in Peers : transfers[p] = <<>>
    /\ \E to \in {"B", "C"}, size \in FileSizes : SendFile("A", to, size, TRUE)

\* users start one transfer at a time, from either peer; a path that cannot be
\* opened has no size
UserSends ==
    /\ nsends < MaxSends
    /\ SendersIdle
    /\ \E p \in {"A", "B"} : \E to \in table \ {p} :
          \/ \E size \in FileSizes : SendFile(p, to, size, TRUE)
          \/ SendFile(p, to, 0, FALSE)

\* one transfer with every worker, pause/resume from both presentation threads and
\* a PAUSE frame from the remote peer; a sender's wait times out when no reply
\* can arrive any more
Next ==
    \/ UserSendsOne
    \/ Workers
    \/ \E p \in Peers : \E k \in Idx(p) : Quiet /\ AckTimeout(p, k)
    \/ \E p \in Peers, ok \in BOOLEAN : RecvLoop(p, ok)
    \/ \E p \in Peers : \E k \in Idx(p) : PauseTest(p, k)
    \/ \E p \in Peers : PauseSet(p)
    \/ \E p \in Peers : \E k \in Idx(p) : ResumeTest(p, k)
    \/ \E p \in Peers : ResumeSet(p)
    \/ \E q \in Peers : PeerPause(q, 1)

Spec == Init /\ [][Next]_vars

\* several transfers one after the other, no pause or resume, no PAUSE frame, no
\* file-system failure on the receiver, replies never late
NextQuiet ==
    \/ UserSends
    \/ Workers
    \/ \E p \in Peers : \E k \in Idx(p) : Quiet /\ AckTimeout(p, k)
    \/ \E p \in Peers : RecvLoop(p, TRUE)

SpecQuiet == Init /\ [][NextQuiet]_vars

\* on a hub of three peers A sends a file of one byte to B, alone or after B
\* has sent an empty file to C
UserSendsThree ==
    /\ nsends < MaxThreeSends
    /\ SendersIdle
    /\ \/ nsends = 0 /\ SendFile("B", "C", 0, TRUE)
       \/ transfers["A"] = <<>> /\ SendFile("A", "B", 1, TRUE)

\* three peers on one hub, no pause or resume; a sender's wait times out when
\* no reply can arrive any more
NextThree ==
    \/ UserSendsThree
    \/ Workers
    \/ \E p \in Peers : \E k \in Idx(p) : Quiet /\ AckTimeout(p, k)
    \/ \E p \in Peers : RecvLoop(p, TRUE)

SpecThree == InitThree /\ [][NextThree]_vars

\* the first transfer, whose sender is never paused; the receiving peer may pause
\* and resume its inbound transfer, and replies may be late
NextRetry ==
    \/ UserSendsFirst
    \/ Workers
    \/ \E p \in Peers : \E k \in Idx(p) : AckTimeout(p, k)
    \/ \E p \in Peers : RecvLoop(p, TRUE)
    \/ \E p \in Peers : \E k \in Idx(p) :
            transfers[p][k].dir = "in" /\ PauseTest(p, k)
    \/ \E p \in Peers : PauseSet(p)
    \/ \E p \in Peers : \E k \in Idx(p) :
            transfers[p][k].dir = "in" /\ ResumeTest(p, k)
    \/ \E p \in Peers : ResumeSet(p)

SpecRetry == Init /\ [][NextRetry]_vars

\* the first transfer with the presentation threads calling transfer_pause and
\* transfer_resume on any id, allocated or not
ApiIds == 1..(MaxPausable + 1)

\* the processes that run as clients of the hub
Callers == {"A", "B"}

NextApi ==
    \/ UserSendsFirst
    \/ Workers
    \/ \E p \in Peers : \E k \in Idx(p) : Quiet /\ AckTimeout(p, k)
    \/ \E p \in Peers : RecvLoop(p, TRUE)
    \/ \E p \in Peers : \E k \in Idx(p) : PauseTest(p, k)
    \/ \E p \in Peers : PauseSet(p)
    \/ \E p \in Peers : \E k \in Idx(p) : ResumeTest(p, k)
    \/ \E p \in Peers : ResumeSet(p)
    \/ \E p \in Callers, id \in ApiIds : PauseRefused(p, id)
    \/ \E p \in Callers, id \in ApiIds : ResumeRefused(p, id)
    \/ \E p \in Peers : ApiReturn(p)

SpecApi == Init /\ [][NextApi]_vars

\* the hub alone, started with an empty table; no peer process is modelled
InitHub ==
    /\ id_counter = [p \in Peers |-> 1]
    /\ transfers = [p \in Peers |-> <<>>]
    /\ connected = [p \in Peers |-> FALSE]
    /\ inq = [p \in Peers |-> <<>>]
    /\ outq = [p \in Peers |-> <<>>]
    /\ pres = [p \in Peers |-> [op |-> "idle", k |-> 0]]
    /\ table = {}
    /\ garbled = [p \in Peers |-> FALSE]
    /\ hubHung = FALSE
    /\ nsends = 0
    /\ npause = 0
    /\ peers = <<>>
    /\ fds = {}
    /\ sin = [fd \in Fds |-> <<>>]
    /\ sout = [fd \in Fds |-> <<>>]
    /\ running = TRUE
    /\ server_thread = "serving"
    /\ nacc = 0
    /\ nfr = 0
    /\ seen = <<>>
    /\ now = 0
    /\ spc = "recv"
    /\ heard = {}
    /\ event_queue = <<>>
    /\ eq_head = 0
    /\ eq_tail = 0
    /\ npush = 0
    /\ polled = <<>>
    /\ dropped = {}
    /\ got = 0
    /\ sock_fd = [p \in Peers |-> 0 - 1]
    /\ openfds = [p \in Peers |-> {}]
    /\ recv_thread = [p \in Peers |-> "none"]
    /\ srv = [p \in Peers |-> "none"]
    /\ call = [p \in Peers |-> NoCall]
    /\ wire = <<>>
    /\ wr = [w \in Writers |-> NotWriting]

Alice == UserName("alice")
Bob == UserName("bob")

HelloFrame(n) == Frame("HELLO", 0, n[3], 0, NoData, <<n>>)

\* "to\0hi", and the same name sent without its terminator
ChatFrame(to) == Frame("CHAT", 0, to[3] + 3, 0, NoData, <<to, "hi">>)
ChatNoSep(to) == Frame("CHAT", 0, to[3], 0, NoData, <<to, "">>)

ByeFrame == Frame("BYE", 0, 0, 0, NoData, <<>>)

HubFrames ==
    {HelloFrame(Alice), HelloFrame(Bob), ChatFrame(Alice), ChatFrame(Bob),
     ChatNoSep(Bob), ByeFrame,
     Frame("CHUNK", 1, 5, 1, <<1, 1>>, <<>>), AckFrame("ACK", 1),
     AckFrame("NACK", 1), AckFrame("PAUSE", 0), AckFrame("RESUME", 0),
     Frame("PING", 0, 0, 0, NoData, <<>>)}

\* a few connections exchanging chat and file frames through the hub
NextHub ==
    \/ nacc < MaxConns /\ HubAccept
    \/ \E i \in 1..MaxConns : HubRead(i)
    \/ \E i \in 1..MaxConns : HubReadFail(i)
    \/ \E fd \in 1..MaxConns, f \in HubFrames : nfr < MaxFrames /\ ClientSend(fd, f)
    \/ \E fd \in 1..MaxConns : nfr < MaxFrames /\ ClientClose(fd)

SpecHub == InitHub /\ [][NextHub]_vars

\* a HELLO whose name is longer than the name field
LongName == <<"x", 0, MAX_NAME + 6>>

\* the first connection is the one that talks, leaves and reconnects
Talkers == {1}

\* the table filled once, the spare sockets, and the talker's reconnection
MaxAccepts == MAX_PEERS + MaxSpare + 1

\* enough connections to fill the table and go past it; only the first few
\* sockets talk or break, the others stay silent
NextTable ==
    \/ nacc < MaxAccepts /\ HubAccept
    \/ \E i \in 1..Len(peers) : peers[i].fd \in Talkers /\ HubRead(i)
    \/ \E i \in 1..Len(peers) : peers[i].fd \in Talkers /\ HubReadFail(i)
    \/ HubStop
    \/ HubStart
    \/ \E fd \in Talkers, f \in {HelloFrame(Alice), HelloFrame(LongName), ByeFrame} :
          nfr < MaxHellos /\ ClientSend(fd, f)
    \/ \E fd \in Talkers : nfr < MaxHellos /\ ClientClose(fd)

SpecTable == InitHub /\ [][NextTable]_vars

\* the server started and stopped, its port free or taken, while a few
\* clients connect and talk
NextLife ==
    \/ HubStart
    \/ HubStartFails
    \/ HubStop
    \/ nacc < MaxConns /\ HubAccept
    \/ \E i \in 1..MaxConns : HubRead(i)
    \/ \E i \in 1..MaxConns : HubReadFail(i)
    \/ \E fd \in 1..MaxConns, f \in {HelloFrame(Alice), ChatFrame(Bob), ByeFrame} :
          nfr < MaxFrames /\ ClientSend(fd, f)
    \/ \E fd \in 1..MaxConns : nfr < MaxFrames /\ ClientClose(fd)

SpecLife == InitHub /\ [][NextLife]_vars

\* servers on the segment: MAX_PEERS of them announce once, when the scan
\* starts and after the host's first beacon; the host keeps announcing its
\* server under changing names, and a second server on another port
FillerIp(k) == <<"10.0.1.", k>>
HostIp == <<"10.0.0.", 1>>
NoIp == <<"", 0>>
S1 == UserName("s1")

NextDisc ==
    \/ \E k \in 1..MAX_PEERS :
          /\ now = 0
          /\ FindSeen(HostIp, DATA_PORT) # 0
          /\ FindSeen(FillerIp(k), DATA_PORT) = 0
          /\ k = 1 \/ FindSeen(FillerIp(k - 1), DATA_PORT) # 0
          /\ ScanRecv(S1, FillerIp(k), DATA_PORT)
    \/ ScanRecv(S1, HostIp, DATA_PORT + 1)
    \/ \E name \in {S1, LongName}, port \in {DATA_PORT, DATA_PORT + U16} :
          ScanRecv(name, HostIp, port)
    \/ \E b \in {<<UserName(""), HostIp, DATA_PORT>>, <<S1, NoIp, DATA_PORT>>,
                 <<S1, HostIp, 0>>} : ScanRecv(b[1], b[2], b[3])
    \/ ScanTimeout
    \/ ScanExpire
    \/ now < MaxTicks * (DISC_EXPIRE_MS \div 2) /\ Tick

SpecDisc == Init /\ [][NextDisc]_vars

\* pushes past the size of the ring, polls at any moment
NextEvents ==
    \/ npush < EVENT_QUEUE_SIZE + MaxOverflow /\ event_push
    \/ client_poll_event

SpecEvents == Init /\ [][NextEvents]_vars

\* the clients whose session is followed: one connected from the start and one
\* that is not
SessPeers == {"A", "C"}

\* recipient names and texts whose payload lengths lie around MAX_MSG
ToLens == {1, 2}
TxtLens == (MAX_MSG - 4)..MAX_MSG

\* the sessions of two clients: connecting, chatting, the hub closing its end,
\* disconnecting
NextSession ==
    \/ \E p \in SessPeers, ok \in BOOLEAN : client_connect(p, ok)
    \/ \E p \in SessPeers : HubCloses(p)
    \/ \E p \in SessPeers : recv_loop_eof(p)
    \/ \E p \in SessPeers : recv_loop_frame(p)
    \/ \E p \in SessPeers : DisconnectCall(p)
    \/ \E p \in SessPeers : DisconnectJoin(p)
    \/ \E p \in SessPeers, to_len \in ToLens, txt_len \in TxtLens, ok \in BOOLEAN :
          client_send_chat(p, to_len, txt_len, ok)
    \/ \E p \in SessPeers : CallReturn(p)

SpecSession == Init /\ [][NextSession]_vars

\* peer_remove, or server_loop closing every peer socket when the hub stops:
\* the hub closes its socket of peer p and forgets the peer
HubDrops(p) ==
    /\ p \in table
    /\ srv[p] = "open"
    /\ table' = table \ {p}
    /\ srv' = [srv EXCEPT ![p] = "closed"]
    /\ UNCHANGED <<connected, sock_fd, openfds, recv_thread, call, wirevars>>
    /\ UNCHANGED <<id_counter, transfers, inq, outq, pres, garbled, hubHung,
                   nsends, npause, hubvars, discvars, evvars>>

\* the first transfer on the hub, of a file that is not empty
UserSendsData ==
    /\ \A p \in Peers : transfers[p] = <<>>
    /\ \E to \in {"B", "C"}, size \in FileSizes \ {0} : SendFile("A", to, size, TRUE)

\* the first transfer, during which the hub may close the connection of either
\* peer; replies may be late
NextLost ==
    \/ UserSendsData
    \/ Workers
    \/ \E p \in Peers : \E k \in Idx(p) : AckTimeout(p, k)
    \/ \E p \in Peers : RecvLoop(p, TRUE)
    \/ \E p \in Peers : HubDrops(p)
    \/ \E p \in Peers : recv_loop_eof(p)

SpecLost == Init /\ [][NextLost]_vars

\* a client that sends two files, receives one and chats at the same time
NextWire == \E w \in Writers : SockSend(w)

SpecWire == Init /\ [][NextWire]_vars

(* ---------------------------------------------------------------------- *)
(* Properties                                                              *)
(* ---------------------------------------------------------------------- *)
Slots == {<<p, k>> : p \in Peers, k \in 1..MAX_TRANSFERS}
Live == {s \in Slots : s[2] <= Len(transfers[s[1]])}
T(s) == transfers[s[1]][s[2]]
Outbound == {s \in Live : T(s).dir = "out"}
Inbound == {s \in Live : T(s).dir = "in"}

\* the bytes the sender read for chunk i of the file an inbound transfer announces
SourceChunk(t, i) == <<t.file[1], t.file[2], i>>

\* C1: whenever a receive-side transfer is DONE, every chunk 0..total_chunks-1 of
\* its output file holds the data the sender read for that index
C1_DoneFileEqualsSource ==
    \A s \in Inbound :
        T(s).state = "DONE" =>
            \A i \in 0..(T(s).total - 1) : T(s).disk[i] = SourceChunk(T(s), i)

\* C2: on the receiver done_chunks equals the number of set bits in chunk_map
C2_DoneIsPopcount ==
    \A s \in Inbound : T(s).done = Cardinality(T(s).map)

\* C3: in a run without loss or pause, the first transfer on the hub, A sending a
\* file of N >= 1 chunks to B, sends every chunk exactly once, never retries,
\* never fails, and its worker ends with the transfer DONE and
\* done_chunks = total_chunks
C3_LossFreeFirstTry ==
    \A s \in Outbound :
        (/\ nsends = 1 /\ s[1] = "A" /\ T(s).peer = "B"
         /\ T(s).openable /\ T(s).pc # "start" /\ T(s).total >= 1) =>
            /\ T(s).retries = 0
            /\ \A i \in 0..(MaxChunks - 1) : T(s).tx[i] <= 1
            /\ T(s).state # "ERROR"
            /\ T(s).pc = "exit" => (T(s).state = "DONE" /\ T(s).done = T(s).total)

\* C4: every transfer has done_chunks <= total_chunks
C4_DoneAtMostTotal ==
    \A s \in Live : T(s).done <= T(s).total

\* C5: a transfer whose state is DONE or ERROR keeps that state
C5_TerminalStable ==
    [][\A p \in Peers : \A k \in 1..Len(transfers[p]) :
          transfers[p][k].state \in {"DONE", "ERROR"} =>
              transfers'[p][k].state = transfers[p][k].state]_vars

\* C6: a DONE transfer has done_chunks = total_chunks, and its output file is
\* closed (receiver) or the ACK of its final chunk was observed (sender)
C6_DoneMeansComplete ==
    \A s \in Live :
        T(s).state = "DONE" =>
            /\ T(s).done = T(s).total
            /\ T(s).dir = "in" => T(s).fp = "null"
            /\ (T(s).dir = "out" /\ T(s).total > 0) => (T(s).total - 1) \in T(s).ackobs

\* C7: a chunk is transmitted at most XFER_MAX_RETRIES times, and once a chunk
\* has failed XFER_MAX_RETRIES times in a row the worker sends nothing more and
\* ends with the transfer in ERROR
C7_RetriesBounded ==
    \A s \in Outbound :
        /\ \A i \in 0..(MaxChunks - 1) : T(s).tx[i] <= XFER_MAX_RETRIES
        /\ T(s).exhausted => T(s).pc \in {"post", "fin", "exit"}
        /\ (T(s).exhausted /\ T(s).pc = "exit") => T(s).state = "ERROR"

C9_NoChunkWhilePaused ==
    [][\A p \in Peers : \A k \in 1..Len(transfers[p]) :
          (transfers[p][k].dir = "out" /\ transfers[p][k].pauseOk) =>
              transfers'[p][k].tx = transfers[p][k].tx]_vars

\* C10: the first CHUNK transmitted after a successful resume carries
\* seq = done_chunks
C10_ResumeAtFirstUnacked ==
    [][\A p \in Peers : \A k \in 1..Len(transfers[p]) :
          (/\ transfers[p][k].dir = "out"
           /\ transfers[p][k].resumed
           /\ transfers'[p][k].tx # transfers[p][k].tx) =>
              transfers[p][k].seq = transfers[p][k].done]_vars

\* C11: transfer_pause goes on to its write only for an existing ACTIVE transfer
\* and leaves it PAUSED, transfer_resume only for an existing PAUSED transfer and
\* leaves it ACTIVE; a call that is refused found no transfer or one in another
\* state, and changes no transfer; neither call changes done_chunks or
\* total_chunks
C11_PauseResumeGuarded ==
    [][\A p \in Peers :
          LET k == pres[p].k
              k1 == pres'[p].k
          IN
          /\ (pres[p].op = "idle" /\ pres'[p].op = "pause") =>
                (k1 \in 1..Len(transfers[p]) /\ transfers[p][k1].state = "ACTIVE")
          /\ (pres[p].op = "idle" /\ pres'[p].op = "resume") =>
                (k1 \in 1..Len(transfers[p]) /\ transfers[p][k1].state = "PAUSED")
          /\ (pres[p].op = "pause" /\ pres'[p].op = "idle") =>
                /\ transfers'[p][k].state = "PAUSED"
                /\ transfers'[p][k].done = transfers[p][k].done
                /\ transfers'[p][k].total = transfers[p][k].total
          /\ (pres[p].op = "resume" /\ pres'[p].op = "idle") =>
                /\ transfers'[p][k].state = "ACTIVE"
                /\ transfers'[p][k].done = transfers[p][k].done
                /\ transfers'[p][k].total = transfers[p][k].total
          /\ (pres[p].op = "idle" /\ pres'[p].op = "pause_refused") =>
                /\ transfers' = transfers
                /\ IF k1 = 0 THEN TRUE ELSE transfers[p][k1].state # "ACTIVE"
          /\ (pres[p].op = "idle" /\ pres'[p].op = "resume_refused") =>
                /\ transfers' = transfers
                /\ IF k1 = 0 THEN TRUE ELSE transfers[p][k1].state # "PAUSED"]_vars

\* transfer_pause was refused on a DONE transfer and transfer_resume on an id that
\* was never allocated
C11_Witness ==
    /\ pres["A"].op = "pause_refused" /\ pres["A"].k > 0
    /\ transfers["A"][pres["A"].k].state = "DONE"
    /\ pres["B"].op = "resume_refused" /\ pres["B"].k = 0

\* C12: once the META of a zero-byte file has been handled and no frame is on
\* its way, the transfer is DONE on the sender and on the receiver
C12_ZeroByteDone ==
    \A s \in Live :
        (/\ T(s).total = 0 /\ T(s).openable /\ T(s).pc \in {"none", "exit"}
         /\ Quiet /\ SendersIdle) =>
            T(s).state = "DONE"

\* C13: the inbound transfer created by the META of the sender's transfer X is
\* registered under the id X, the one the CHUNK frames of that transfer carry
C13_ReceiverAdoptsSenderId ==
    \A s \in Inbound : T(s).id = T(s).file[2]

\* the step reads the frame at the head of the socket of table entry fd
Reads(fd) ==
    /\ fd \in TableFds
    /\ sin[fd] # <<>>
    /\ sin'[fd] = Tail(sin[fd])
    /\ fd \in fds'

\* C14: a CHAT "to\0text" read from peer S reaches, as "sender_name\0text",
\* exactly one peer named to and nobody else when such a peer is in the
\* table; otherwise it reaches every peer except S, and not S.
C14_ChatRouting ==
    [][\A fd \in Fds :
        (Reads(fd) /\ Head(sin[fd]).type = "CHAT"
                   /\ Head(sin[fd]).plen > Head(sin[fd]).meta[1][3]) =>
        LET f == Head(sin[fd])
            to == f.meta[1]
            sender == peers[PeerIdx(fd)].name
            Routed(g) == /\ Len(sout'[g]) = Len(sout[g]) + 1
                         /\ SubSeq(sout'[g], 1, Len(sout[g])) = sout[g]
                         /\ sout'[g][Len(sout'[g])].type = "CHAT"
                         /\ sout'[g][Len(sout'[g])].meta = <<sender, f.meta[2]>>
                         /\ sout'[g][Len(sout'[g])].plen = sender[3] + 1 + Len(f.meta[2])
        IN IF \E i \in 1..Len(peers) : peers[i].name = to
           THEN \E t \in TableFds :
                   /\ peers[PeerIdx(t)].name = to
                   /\ Routed(t)
                   /\ \A g \in Fds \ {t} : sout'[g] = sout[g]
           ELSE \A g \in Fds :
                   IF g \in TableFds \ {fd} THEN Routed(g) ELSE sout'[g] = sout[g]]_vars

\* C15: after the hub handles a CHAT addressed to a name that is not in the
\* table, the sender being the only peer, nothing has been sent to anyone
\* and the hub keeps serving (its worker is not blocked), so that later
\* connections and chats are handled.
C15_UnknownNameHarmless ==
    [][\A fd \in Fds :
        (/\ Reads(fd)
         /\ Head(sin[fd]).type = "CHAT"
         /\ Head(sin[fd]).plen > Head(sin[fd]).meta[1][3]
         /\ TableFds = {fd}
         /\ peer_find_by_name(Head(sin[fd]).meta[1]) = 0)
        => (sout' = sout /\ hubHung' = FALSE)]_vars

\* C16: every FILE_CHUNK, FILE_ACK, FILE_NACK, PAUSE or RESUME frame the hub
\* reads from peer S is forwarded unchanged to every other peer in the table
\* and is never sent back to S (nor to a socket that is not in the table).
C16_FileFramesBroadcast ==
    [][\A fd \in Fds :
        (Reads(fd) /\ Head(sin[fd]).type \in FileTypes) =>
        \A g \in Fds :
            sout'[g] = IF g \in TableFds \ {fd}
                       THEN Append(sout[g], Head(sin[fd]))
                       ELSE sout[g]]_vars

\* a CHUNK from the first of three peers has reached the two others only
C16_Witness ==
    /\ Len(peers) = 3
    /\ nfr = 1
    /\ sin[1] = <<>>
    /\ sout[1] = <<>>
    /\ \A g \in {2, 3} : Len(sout[g]) = 1 /\ sout[g][1].type = "CHUNK"
                         /\ sout[g][1].data = <<1, 1>>

\* C17: after any sequence of accept, HELLO, BYE, read-failure and stop
\* operations the peer table has at most MAX_PEERS entries, pairwise
\* distinct fds, and names of at most MAX_NAME - 1 characters.
C17_PeerTableInvariant ==
    /\ Len(peers) <= MAX_PEERS
    /\ \A i, k \in 1..Len(peers) : i # k => peers[i].fd # peers[k].fd
    /\ \A i \in 1..Len(peers) : peers[i].name[3] <= MAX_NAME - 1

\* a full table after a removal, a truncated HELLO name, and more accepts
\* than the table has room for
C17_Witness ==
    /\ Len(peers) = MAX_PEERS
    /\ nacc > MAX_PEERS + 1
    /\ peers[1].fd # 1
    /\ \E i \in 1..Len(peers) : peers[i].name = <<"x", 0, MAX_NAME - 1>>

\* C18: when the peer table already holds MAX_PEERS entries, a newly
\* accepted connection is rejected by accept-then-close: after the step its
\* socket is not open, it has not been added, and the table is unchanged.
C18_FullTableRejects ==
    [][(Len(peers) = MAX_PEERS /\ nacc' = nacc + 1) =>
        (fds' = fds /\ peers' = peers)]_vars

Entries == {peers[i] : i \in 1..Len(peers)}

\* C19: once the hub has processed BYE from a peer, or a read on its socket
\* has failed or returned zero, the peer's entry is gone from the table, its
\* socket is closed and every other entry is still present; and no frame is
\* forwarded to a socket that is closed.
C19_PeerRemoved ==
    [][/\ \A fd \in TableFds :
            (/\ nfr' = nfr
             /\ sin[fd] # <<>>
             /\ Head(sin[fd]).type \in {"BYE", "EOF"}
             /\ sin'[fd] # sin[fd])
            => /\ fd \notin fds'
               /\ Len(peers') = Len(peers) - 1
               /\ {peers'[i] : i \in 1..Len(peers')} = Entries \ {peers[PeerIdx(fd)]}
       /\ \A g \in Fds \ fds :
            \/ sout'[g] = sout[g]
            \/ g \in fds' /\ sout'[g] = <<>>]_vars

\* the first of three peers said BYE and its entry was replaced by the last
\* one; a CHUNK the second peer sent afterwards went to the third only
C19_Witness ==
    /\ nacc = 3
    /\ nfr = 2
    /\ fds = {2, 3}
    /\ Len(peers) = 2 /\ peers[1].fd = 3 /\ peers[2].fd = 2
    /\ sout[1] = <<>>
    /\ sout[2] = <<>>
    /\ Len(sout[3]) = 1 /\ sout[3][1].type = "CHUNK"
    /\ sin[2] = <<>>

SeenKey(e) == <<e.ip, e.port>>

\* C20: after any sequence of beacon upserts and eviction passes the
\* seen-servers table holds at most MAX_PEERS entries and no two entries
\* share the same (ip, port); and a step of upsert_server either changes
\* nothing, or appends one entry with a new (ip, port), or refreshes the name
\* and timestamp of one entry, leaving the count and all other entries as
\* they were.
C20_SeenServersTable ==
    /\ [](/\ Len(seen) <= MAX_PEERS
          /\ \A i, k \in 1..Len(seen) : i # k => SeenKey(seen[i]) # SeenKey(seen[k]))
    /\ [][(spc = "recv" /\ spc' = "expire") =>
            \/ seen' = seen
            \/ /\ Len(seen') = Len(seen) + 1
               /\ SubSeq(seen', 1, Len(seen)) = seen
               /\ \A i \in 1..Len(seen) : SeenKey(seen[i]) # SeenKey(seen'[Len(seen')])
            \/ /\ Len(seen') = Len(seen)
               /\ \E i \in 1..Len(seen) :
                     /\ SeenKey(seen'[i]) = SeenKey(seen[i])
                     /\ seen'[i].ts = now
                     /\ \A k \in 1..Len(seen) : k # i => seen'[k] = seen[k]]_vars

\* a full table in which the host's entry was refreshed, later and under a
\* name cut to the field's size, next to the host's server on the other port
C20_Witness ==
    /\ Len(seen) = MAX_PEERS
    /\ \E i \in 1..Len(seen) :
          /\ seen[i].ip = HostIp
          /\ seen[i].port = DATA_PORT
          /\ seen[i].ts > 0
          /\ seen[i].name = <<"x", 0, MAX_NAME - 1>>
    /\ \E i \in 1..Len(seen) : seen[i].ip = HostIp /\ seen[i].port = DATA_PORT + 1

\* the (ip, port) keys of the table
SeenKeys == {SeenKey(seen[i]) : i \in 1..Len(seen)}

\* C21 as stated: after every eviction pass, an entry for (ip, port) is
\* present iff a valid beacon for that (ip, port) arrived within the last
\* DISC_EXPIRE_MS; in particular every received beacon yields an entry.
C21_PresentIffHeardRecently ==
    [][(spc = "expire" /\ spc' = "recv") =>
        /\ \A h \in heard : now - h.t <= DISC_EXPIRE_MS => <<h.ip, h.port>> \in SeenKeys'
        /\ \A i \in 1..Len(seen') :
              \E h \in heard : /\ SeenKey(seen'[i]) = <<h.ip, h.port>>
                               /\ now - h.t <= DISC_EXPIRE_MS]_vars

\* C21 amended: after every eviction pass, an entry for (ip, port) is present
\* iff the last valid beacon for that (ip, port) arrived within the last
\* DISC_EXPIRE_MS and was not refused because the table held MAX_PEERS
\* entries; no entry older than DISC_EXPIRE_MS remains.
C21_PresentIffStoredRecently ==
    [][(spc = "expire" /\ spc' = "recv") =>
        /\ \A h \in heard :
              (h.stored /\ now - h.t <= DISC_EXPIRE_MS) => <<h.ip, h.port>> \in SeenKeys'
        /\ \A i \in 1..Len(seen') :
              /\ now - seen'[i].ts <= DISC_EXPIRE_MS
              /\ \E h \in heard : /\ SeenKey(seen'[i]) = <<h.ip, h.port>>
                                  /\ h.stored
                                  /\ h.t = seen'[i].ts]_vars

\* after a pass at 15000 ms only the server heard at 5000 ms is left, the two
\* heard at 0 ms, stored then, are gone
C21_Witness ==
    /\ spc = "recv"
    /\ now = 3 * (DISC_EXPIRE_MS \div 2)
    /\ Len(seen) = 1
    /\ seen[1].ip = HostIp /\ seen[1].port = DATA_PORT + 1
    /\ seen[1].ts = DISC_EXPIRE_MS \div 2
    /\ \E h \in heard : h.ip = HostIp /\ h.port = DATA_PORT /\ h.t = 0 /\ h.stored
    /\ \E h \in heard : h.ip = FillerIp(1) /\ h.t = 0 /\ h.stored

\* the undelivered events, oldest first: the slots from eq_tail up to eq_head
Pending ==
    [k \in 1..((eq_head - eq_tail + EVENT_QUEUE_SIZE) % EVENT_QUEUE_SIZE) |->
        Slot((eq_tail + k - 1) % EVENT_QUEUE_SIZE)]

\* C22: event_push always completes; it makes the pushed event the newest
\* undelivered one and discards nothing, or, from a full ring, exactly the
\* oldest undelivered event, so that the undelivered events are always the
\* most recently pushed ones.
C22_PushDropsOldest ==
    /\ [][npush' = npush + 1 =>
            LET old == Pending
                new == Pending'
            IN \/ new = Append(old, npush')
               \/ /\ old # <<>>
                  /\ new = Append(Tail(old), npush')
                  /\ dropped' = dropped \cup {Head(old)}]_vars
    /\ [](LET p == Pending IN \A k \in 1..Len(p) : p[k] = npush - Len(p) + k)

\* the ring overflowed twice and the undelivered events are the newest ones
C22_Witness ==
    /\ npush = EVENT_QUEUE_SIZE + 1
    /\ polled = <<>>
    /\ dropped = {1, 2}
    /\ Len(Pending) = EVENT_QUEUE_SIZE - 1
    /\ Pending[1] = 3

\* C23: the events returned by successive client_poll_event calls form a
\* subsequence of the events pushed, in the order of the pushes (event n is
\* the n-th pushed), for every interleaving of pushes and polls.
C23_PollOrder ==
    /\ \A k \in 1..Len(polled) : polled[k] \in 1..npush
    /\ \A k \in 1..(Len(polled) - 1) : polled[k] < polled[k + 1]

\* event 1 was polled, event 2 was lost to the overflow, event 3 came next
C23_Witness ==
    /\ polled = <<1, 3>>
    /\ dropped = {2}
    /\ got = 1

\* C24: the ring retains up to EVENT_QUEUE_SIZE undelivered events: a push
\* drops an event only when EVENT_QUEUE_SIZE events are already pending, so
\* after EVENT_QUEUE_SIZE pushes and no poll all of them are pending.
C24_RetainsQueueSize ==
    /\ [][dropped' # dropped =>
            npush - Len(polled) - Cardinality(dropped) = EVENT_QUEUE_SIZE]_vars
    /\ []((npush = EVENT_QUEUE_SIZE /\ polled = <<>>) =>
            (dropped = {} /\ eq_head # eq_tail))

\* C25: every event pushed is, at any moment, exactly one of returned,
\* dropped by overflow, or still pending; no event is returned twice; a poll
\* returns the oldest pending event, and returns 0 and nothing when
\* eq_head = eq_tail.
C25_ExactlyOnce ==
    /\ [](LET p == Pending
              P == {p[k] : k \in 1..Len(p)}
              R == {polled[k] : k \in 1..Len(polled)}
          IN /\ P \cup R \cup dropped = 1..npush
             /\ Cardinality(P) + Cardinality(R) + Cardinality(dropped) = npush
             /\ Cardinality(R) = Len(polled))
    /\ [][(npush' = npush /\ <<polled, got>>' # <<polled, got>>) =>
            IF eq_head = eq_tail
            THEN got' = 0 /\ polled' = polled
            ELSE got' = 1 /\ polled' = Append(polled, Slot(eq_tail))
                          /\ Slot(eq_tail) \in 1..npush]_vars

\* after an overflow every event is accounted for: one returned, one lost,
\* the others pending, and a poll of the emptied ring returned 0
C25_Witness ==
    /\ npush = EVENT_QUEUE_SIZE
    /\ dropped = {1}
    /\ Len(polled) = EVENT_QUEUE_SIZE - 1
    /\ eq_head = eq_tail
    /\ got = 0

\* C28: every step that takes a transfer into ERROR, on the sender or the
\* receiver, emits with it a notification or event that carries the
\* transfer's done_chunks and total_chunks.
C28_ErrorIsNotified ==
    [][\A p \in Peers : \A k \in 1..Len(transfers'[p]) :
          (/\ transfers'[p][k].state = "ERROR"
           /\ (k > Len(transfers[p]) \/ transfers[p][k].state # "ERROR"))
          => transfers'[p][k].errnote =
                <<transfers'[p][k].done, transfers'[p][k].total>>]_vars

\* C26 (as stated): client_send_chat on a connected peer accepts a chat whose
\* payload length to_len + 1 + txt_len is 4095 and rejects one whose payload
\* length is 4096: it returns -1 and writes no frame.
C26_RejectsAtMaxMsg ==
    [][\A p \in Peers :
          (call[p].op = "idle" /\ call'[p].op = "chat" /\ connected[p]) =>
             /\ (call'[p].total = MAX_MSG - 1 /\ srv[p] # "closed") =>
                   (call'[p].ret = 0 /\ call'[p].sent = MAX_MSG - 1)
             /\ call'[p].total = MAX_MSG =>
                   (call'[p].ret = 0 - 1 /\ call'[p].sent = 0 - 1)]_vars

\* C26 (amended): client_send_chat on a connected peer accepts a chat whose
\* payload length is 4095 or 4096, writing a frame with that payload_len and
\* returning 0 unless the write fails, and rejects one whose payload length
\* is 4097: it returns -1 and writes no frame.
C26_RejectsAboveMaxMsg ==
    [][\A p \in Peers :
          (call[p].op = "idle" /\ call'[p].op = "chat" /\ connected[p]) =>
             /\ (call'[p].total \in {MAX_MSG - 1, MAX_MSG} /\ srv[p] # "closed") =>
                   (call'[p].ret = 0 /\ call'[p].sent = call'[p].total)
             /\ (call'[p].total \in {MAX_MSG - 1, MAX_MSG} /\ call'[p].ret = 0 - 1) =>
                   call'[p].sent = 0 - 1
             /\ call'[p].total = MAX_MSG + 1 =>
                   (call'[p].ret = 0 - 1 /\ call'[p].sent = 0 - 1)]_vars

\* a connected client has sent a chat of exactly MAX_MSG payload bytes
C26_Witness ==
    \E p \in Peers :
        /\ connected[p]
        /\ call[p] = Returned("chat", 0, MAX_MSG, MAX_MSG)

\* C27: when client_disconnect returns the session is torn down: connected is
\* 0, sock_fd is -1, the socket is closed and the receive worker has exited
\* and been joined, so that a client_connect that follows starts from a clean
\* state, with no socket or worker of the earlier session left behind.
C27_DisconnectTearsDown ==
    [][\A p \in Peers :
          (call[p].op # "disconnect" /\ call'[p].op = "disconnect") =>
             /\ ~connected'[p]
             /\ sock_fd'[p] = 0 - 1
             /\ openfds'[p] = {}
             /\ recv_thread'[p] = "none"]_vars

\* C29: server_is_running() is true only while the accept loop is serving;
\* after a start whose bind or listen failed it does not report true.
C29_RunningMeansServing ==
    running => server_thread = "serving"

\* C30: every transmission of a chunk puts on the stream one FILE_CHUNK frame
\* whose payload_len equals the number of payload bytes written after the
\* header, the 4 bytes of xfer_id plus the bytes_read data bytes, for every
\* data length from 1 to CHUNK_SIZE.
C30_PayloadLenIsBytesSent ==
    [][\A p \in Peers : \A k \in 1..Len(transfers[p]) :
          (/\ transfers[p][k].pc = "retry"
           /\ transfers'[p][k].pc = "wait"
           /\ transfers[p][k].br \in 1..CHUNK_SIZE) =>
             LET sent == SubSeq(outq'[p], Len(outq[p]) + 1, Len(outq'[p])) IN
             /\ Len(sent) = 1
             /\ sent[1].type = "CHUNK"
             /\ sent[1].plen = 4 + transfers[p][k].br]_vars

\* C31: whenever a sender's done_chunks is n, the peer it sends to holds the
\* inbound transfer of that file with chunks 0..n-1 written: the sender counts
\* a chunk only on the ACK the receiver emitted for that chunk.
C31_DoneMeansWritten ==
    \A s \in Outbound :
        \A i \in 0..(T(s).done - 1) :
            \E r \in Inbound :
                /\ r[1] = T(s).peer
                /\ T(r).file = T(s).file
                /\ T(r).disk[i] = SourceChunk(T(r), i)

\* C32: a FILE_ACK, FILE_NACK or PAUSE frame that is read from a peer's socket
\* while one of the peer's sender workers waits in wait_for_ack is read by a
\* waiting sender worker, never by the receive loop.
C32_RepliesReachTheSender ==
    [][\A p \in Peers :
          (/\ inq[p] # <<>>
           /\ Head(inq[p]).type \in {"ACK", "NACK", "PAUSE"}
           /\ inq'[p] = Tail(inq[p])
           /\ \E k \in 1..Len(transfers[p]) : transfers[p][k].pc = "wait") =>
             \E k \in 1..Len(transfers[p]) :
                 /\ transfers[p][k].pc = "wait"
                 /\ transfers'[p][k].pc # "wait"]_vars

\* C33: the send calls of one frame are never separated on the socket by a
\* send call of another thread: between two pieces of a frame lie only pieces
\* of that frame.
C33_FramesNotInterleaved ==
    \A i \in 1..Len(wire) : \A j \in i..Len(wire) :
        (wire[i].by = wire[j].by /\ wire[i].n = wire[j].n) =>
            \A m \in i..j : wire[m].by = wire[i].by

\* C34: a sender worker that went through its chunk loop and exited left its
\* transfer in a terminal state, and in ERROR unless done_chunks equals
\* total_chunks.
C34_ExitIsTerminal ==
    [][\A p \in Peers : \A k \in 1..Len(transfers[p]) :
          (/\ transfers[p][k].pc = "fin"
           /\ transfers'[p][k].pc = "exit") =>
             /\ transfers'[p][k].state \in {"DONE", "ERROR"}
             /\ transfers'[p][k].done # transfers'[p][k].total =>
                    transfers'[p][k].state = "ERROR"]_vars

\* C35: a peer that reads a FILE_CHUNK whose xfer_id names no inbound
\* transfer of its own sends no reply and changes no transfer: state,
\* done_chunks, chunk_map and file contents of all its transfers stay as they
\* were.
C35_ForeignChunkIgnored ==
    [][\A p \in Peers :
          (/\ inq[p] # <<>>
           /\ inq'[p] = Tail(inq[p])
           /\ Head(inq[p]).type = "CHUNK"
           /\ \A k \in 1..Len(transfers[p]) :
                 ~(transfers[p][k].dir = "in" /\ transfers[p][k].id = Head(inq[p]).xid)) =>
             /\ outq'[p] = outq[p]
             /\ Len(transfers'[p]) = Len(transfers[p])
             /\ \A k \in 1..Len(transfers[p]) :
                   /\ transfers'[p][k].state = transfers[p][k].state
                   /\ transfers'[p][k].done = transfers[p][k].done
                   /\ transfers'[p][k].map = transfers[p][k].map
                   /\ transfers'[p][k].disk = transfers[p][k].disk]_vars

\* C36: when recv_loop takes a CHUNK frame that carries the id of an inbound
\* transfer of its peer whose state is PAUSED or ERROR, it writes one NACK with
\* the chunk's seq to the socket and leaves the transfer's state, done_chunks,
\* chunk_map, output file and file handle as they were.
C36_PausedOrErrorRejects ==
    [][\A p \in Peers :
         (/\ inq[p] # <<>>
          /\ inq'[p] = Tail(inq[p])
          /\ Len(transfers'[p]) = Len(transfers[p])
          /\ \A k \in 1..Len(transfers[p]) : transfers'[p][k].pc = transfers[p][k].pc
          /\ Head(inq[p]).type = "CHUNK"
          /\ Head(inq[p]).plen >= 4
          /\ \E k \in 1..Len(transfers[p]) :
                /\ transfers[p][k].dir = "in"
                /\ transfers[p][k].id = Head(inq[p]).xid
                /\ transfers[p][k].state \in {"PAUSED", "ERROR"})
         => /\ outq'[p] = Append(outq[p], AckFrame("NACK", Head(inq[p]).seq))
            /\ \A k \in 1..Len(transfers[p]) :
                  /\ transfers'[p][k].state = transfers[p][k].state
                  /\ transfers'[p][k].done = transfers[p][k].done
                  /\ transfers'[p][k].map = transfers[p][k].map
                  /\ transfers'[p][k].disk = transfers[p][k].disk
                  /\ transfers'[p][k].fp = transfers[p][k].fp]_vars

\* a receiver that paused its inbound transfer before any chunk was written has
\* answered a chunk of it with NACK
C36_Witness ==
    \E r \in Inbound :
        /\ T(r).state = "PAUSED"
        /\ T(r).done = 0
        /\ T(r).fp = "open"
        /\ T(r).disk = Holes
        /\ outq[r[1]] # <<>>
        /\ outq[r[1]][Len(outq[r[1]])].type = "NACK"

\* C37: once the hub has closed a peer's connection and recv_loop has ended,
\* and no thread of the system can take another step, every transfer of that
\* peer is DONE or ERROR and no receive context holds an open output file.
C37_EndedSessionSettles ==
    \A p \in Peers :
        (/\ recv_thread[p] = "exited"
         /\ ~connected[p]
         /\ ~ENABLED NextLost)
        => \A k \in 1..Len(transfers[p]) :
              /\ transfers[p][k].state \in {"DONE", "ERROR"}
              /\ transfers[p][k].dir = "in" => transfers[p][k].fp # "open"

\* C38: the hub worker is never blocked in handle_packet on the peer_lock it
\* holds itself: whatever frame it handles, it returns to the select loop.
C38_WorkerNeverRelocks == ~hubHung

\* C39: a sender-side transfer is DONE only if every chunk 0..total_chunks-1
\* was transmitted at least once and wait_for_ack returned 0 for its seq.
C39_DoneMeansEveryChunkAcked ==
    \A s \in Outbound :
        T(s).state = "DONE" =>
            \A i \in 0..(T(s).total - 1) : T(s).tx[i] >= 1 /\ i \in T(s).ackobs

\* C40: when recv_loop takes a CHUNK frame, the only inbound transfer whose
\* output file or done_chunks it changes is the one created by the META of the
\* transfer the chunk was read for (same sending peer, same sender-side id).
C40_ChunkOnlyIntoOwnFile ==
    [][\A p \in Peers :
         (/\ inq[p] # <<>>
          /\ inq'[p] = Tail(inq[p])
          /\ Len(transfers'[p]) = Len(transfers[p])
          /\ Head(inq[p]).type = "CHUNK"
          /\ Head(inq[p]).data # NoData)
         => \A k \in 1..Len(transfers[p]) :
               (/\ transfers[p][k].dir = "in"
                /\ \/ transfers'[p][k].disk # transfers[p][k].disk
                   \/ transfers'[p][k].done # transfers[p][k].done)
               => transfers[p][k].file = <<Head(inq[p]).data[1], Head(inq[p]).data[2]>>]_vars

====
